---- MODULE Spec2Model ----
(***************************************************************************)
(* Model of the omnitensor-node compute core.                              *)
(*                                                                         *)
(* The repository holds two independent scheduling designs:                *)
(*   - TaskScheduler (src/src/compute/task_scheduler.rs): a mutex-guarded  *)
(*     VecDeque polled by one `run` loop, which acquires a GPU, loads the  *)
(*     model, executes and releases.  Specification: Spec / FairSpec.      *)
(*     Its load_model call runs the ModelLoader's steps on the loader's    *)
(*     cache, one step per await of load_model.                            *)
(*   - GPUManager (src/src/compute/gpu_manager.rs): a device registry      *)
(*     built by initialize_devices, fed through an mpsc channel and        *)
(*     drained by process_task_queue, with get_gpu_stats callers.          *)
(*     Specification: GpuSpec.                                             *)
(* select_available_device is also checked as a pure function over every   *)
(* bounded device list (SelSpec).                                          *)
(* PrioSpec runs two TaskSchedulers side by side on the same calls with    *)
(* different task priorities.                                              *)
(*                                                                         *)
(* TwoLoopSpec runs a second `run` loop on the queue of one TaskScheduler. *)
(* TimedSpec adds a clock that shows how long process_task holds its gpu. *)
(* ModelLoader (src/src/ai/model_loader.rs) and its cache are called by   *)
(* concurrent tasks (MlSpec) and by the run loops of the TaskScheduler.    *)
(* DataValidator (src/src/data/validation.rs) is modelled call by call    *)
(* (ValSpec).                                                              *)
(*                                                                         *)
(* The mutexes are never poisoned and the channel is never closed under    *)
(* Spec, FairSpec, PrioSpec and GpuSpec, so lock() and send() succeed      *)
(* there.  ErrSpec adds the panics that poison the queue mutex or drop the *)
(* channel's Receiver, and with them the error returns of submit_task.     *)
(***************************************************************************)
EXTENDS Integers, Sequences, FiniteSets, TLC

\* ---------------------------------------------------------------- bounds
MaxValidators == 2
MaxModels == 2
MaxCalls == 4
MaxTasks == 2
MaxPriority == 2
MaxDuration == 2
NumGpus == 2
MaxCapacity == 1
MaxDevices == 2
MaxLoad == 2

\* ------------------------------------------------------- program constants
\* mpsc::channel(100)
ChannelCapacity == 100

TaskIds == 1..MaxTasks
ModelIds == 1..MaxModels
Priorities == 1..MaxPriority
Durations == 1..MaxDuration
\* time a load_model call can take: none that the clock shows, or one unit
LoadTimes == {0, 1}
Gpus == 1..NumGpus
\* device memory and the min_memory threshold, in GiB; a descriptor can
\* report no memory at all
MemoryValues == {0, 2, 4, 8}
MinMemoryValues == {4}

\* ComputeTask: id, model_id (the key of the ModelLoader's cache), priority,
\* max_duration (input_data is opaque to the scheduler and only passed on
\* to model.execute)
ComputeTask ==
  [id : TaskIds, model_id : ModelIds, priority : Priorities,
   max_duration : Durations]
NoTask == [id |-> 0, model_id |-> 0, priority |-> 0, max_duration |-> 0]
\* the tasks the callers submit: every id, with the least and the greatest
\* model id, priority and max_duration
SubmittedTasks ==
  { task \in ComputeTask :
      /\ task.model_id \in {1, MaxModels}
      /\ task.priority \in {1, MaxPriority}
      /\ task.max_duration \in {1, MaxDuration} }

\* GPUDevice: identity (position in the enumeration), total memory, load
NoDevice == [id |-> 0, memory |-> 0, load |-> 0]
DeviceSeqs(n) ==
  { [i \in 1..n |-> [id |-> i, memory |-> f[i][1], load |-> f[i][2]]] :
      f \in [1..n -> MemoryValues \X (0..MaxLoad)] }
DeviceLists == UNION { DeviceSeqs(n) : n \in 0..MaxDevices }

\* holders of the queue mutex: a submitter is named by its task id
Free == 0
Dispatcher == -1
Dispatcher2 == -2

VARIABLES
  \* --- TaskScheduler
  submitArg,            \* the ComputeTask each submit_task call owns
  max_concurrent_tasks, \* TaskScheduler.max_concurrent_tasks
  queue,                \* TaskScheduler.queue (VecDeque<ComputeTask>)
  queueLock,            \* holder of the queue Mutex
  poisoned,             \* whether the queue Mutex is poisoned
  submitPc,             \* position of each submit_task call
  runPc,                \* position of the run loop
  cur,                  \* the task run() popped and process_task owns
  gpu,                  \* the gpu id process_task holds (0: none)
  load,                 \* GpuManager: load counter of each gpu
  queued_tasks,         \* metrics: increment_queued_tasks
  execution_samples,    \* metrics: samples given to record_task_execution
  overdue_tasks,        \* metrics: increment_overdue_tasks
  completed_tasks,      \* metrics: the completed counter
  failed_tasks,         \* metrics: the failed counter
  measured,             \* process_task: execution_time of the task (0: none)
  appended,             \* history: task ids in push_back order
  dispatched,           \* history: task ids in pop_front order
  outcome,              \* history: how process_task ended for each task
  failure,              \* history: the error run() logged for each task
  records,              \* history: number of outcome records per task
  preLoad,              \* history: load counters before the last acquire
  \* --- GPUManager
  enumerated,           \* GPUDevice::enumerate() result (input)
  enumerate_ok,         \* whether GPUDevice::enumerate() succeeds (input)
  min_memory,           \* GPUConfig.min_memory
  devices,              \* GPUManager.devices (Mutex<Vec<GPUDevice>>)
  initResult,           \* result of GPUManager::new
  channel,              \* the mpsc channel behind GPUManager.task_queue
  rxClosed,             \* whether the channel's Receiver was dropped
  sendPc,               \* position of each GPUManager::submit_task call
  gmPc,                 \* position of new / process_task_queue
  gCur,                 \* the task process_task_queue received
  gSel,                 \* the device clone select_available_device returned
  gOutcome,             \* history: how each received task ended
  gPreDevices,          \* history: registry before the last selection
  devLock,              \* holder of the devices Mutex
  statsPc,              \* position of a get_gpu_stats call
  stats,                \* what the last get_gpu_stats call returned
  \* --- select_available_device as a function
  selIn,                \* a device list
  selOut,               \* the selection made on it
  selDone,
  \* --- a second TaskScheduler given the same calls with other priorities
  twSubmitArg,          \* its submit_task arguments
  twQueue,              \* its queue
  twCur,                \* the task its run() popped
  twGpu,                \* the gpu id its process_task holds
  twLoad,               \* its GpuManager's load counters
  twQueued,             \* its metrics: increment_queued_tasks
  twSamples,            \* its metrics: record_task_execution
  twOverdue,            \* its metrics: increment_overdue_tasks
  twDispatched,         \* history: task ids in its pop_front order
  twOutcome,            \* history: how its process_task ended for each task
  twLoadedModels,       \* the cache of its ModelLoader
  \* --- DataValidator
  vData,                \* the DataItem given to validate_data
  vPc,                  \* position of the validate_data call
  vConsensus,           \* what ConsensusManager::reach_consensus returned
  vValidation,          \* validate_data: validation_result
  vStore,               \* the data store: the (id, result) entries written
  vConsensusCalls,      \* history: calls of ConsensusManager::reach_consensus
  vStoreCalls,          \* history: calls of DataStore::store_validation_result
  vReturn               \* what validate_data returned


\* a second run loop started on the same TaskScheduler
VARIABLES
  r2Pc,                 \* position of the second run loop
  r2Cur,                \* the task the second loop popped
  r2Gpu,                \* the gpu the second loop acquired
  handed                \* per task, the model.execute calls made for it


\* the time a task has spent in process_task
VARIABLES
  clock                 \* time passed since acquire_gpu returned (0: no task)

\* ModelLoader (src/src/ai/model_loader.rs)
VARIABLES
  loaded_models,        \* the cache: per model id its entry, or NoEntry
  lPc,                  \* per caller, the position of its load_model call
  lOp,                  \* per caller, the function it called last
  lId,                  \* per caller, the model_id it passed
  lMeta,                \* per caller, the metadata its load_model has read
  lRet,                 \* per caller, what its last call returned
  lActor,               \* the caller that took the last step (0: none)
  calls,                \* the calls made so far
  storage_calls,        \* the get_model_path calls the storage has seen
  loadedSince           \* per model id, whether a load_model returned Ok
                        \* and no unload_model ran since

schedVars == <<submitArg, max_concurrent_tasks, queue, queueLock, poisoned,
               submitPc, runPc,
               cur, gpu, load, queued_tasks, execution_samples, overdue_tasks,
               completed_tasks, failed_tasks, measured,
               appended, dispatched, outcome, failure, records, preLoad>>
gpuVars == <<enumerated, enumerate_ok, min_memory, devices, initResult, rxClosed,
             channel, sendPc, gmPc, gCur, gSel, gOutcome, gPreDevices,
             devLock, statsPc, stats>>
selVars == <<selIn, selOut, selDone>>
twinVars == <<twSubmitArg, twQueue, twCur, twGpu, twLoad, twQueued, twSamples,
              twOverdue, twDispatched, twOutcome, twLoadedModels>>
valVars == <<vData, vPc, vConsensus, vValidation, vStore, vConsensusCalls,
             vStoreCalls, vReturn>>
loop2Vars == <<r2Pc, r2Cur, r2Gpu, handed>>
timeVars == <<clock>>
mlVars == <<loaded_models, lPc, lOp, lId, lMeta, lRet, lActor, calls,
            storage_calls, loadedSince>>
vars == <<schedVars, gpuVars, selVars, twinVars, valVars, loop2Vars, timeVars,
          mlVars>>

\* ------------------------------------------------------------- ModelLoader
\* the tasks that call the loader concurrently; the run loops of a
\* TaskScheduler call it as 1 and 2
LoaderCallers == {1, 2}
\* the contents a metadata file can have when it is read
MetadataVersions == {1, 2}
NoEntry == [present |-> FALSE, metadata |-> 0]
NoResult == [tag |-> "none", metadata |-> 0]
\* the errors load_model returns: get_model_path, load_metadata,
\* CModule::load_on_device
LoadErrors == {"PathError", "MetadataError", "LoadError"}

\* ModelLoader::new: an empty cache, no call made
MlInit ==
  /\ loaded_models = [m \in ModelIds |-> NoEntry]
  /\ lPc = [c \in LoaderCallers |-> "idle"]
  /\ lOp = [c \in LoaderCallers |-> "none"]
  /\ lId = [c \in LoaderCallers |-> 0]
  /\ lMeta = [c \in LoaderCallers |-> 0]
  /\ lRet = [c \in LoaderCallers |-> NoResult]
  /\ lActor = 0
  /\ calls = 0
  /\ storage_calls = 0
  /\ loadedSince = [m \in ModelIds |-> FALSE]

\* the loader is not part of the behaviour
MlIdle == MlInit

\* a load_model that never looks into the cache
LoadCheckNoCache(c, m) ==
  /\ lPc[c] = "idle"
  /\ calls < MaxCalls
  /\ calls' = calls + 1
  /\ lActor' = c
  /\ lOp' = [lOp EXCEPT ![c] = "load"]
  /\ lId' = [lId EXCEPT ![c] = m]
  /\ lPc' = [lPc EXCEPT ![c] = "path"]
  /\ lRet' = [lRet EXCEPT ![c] = NoResult]
  /\ UNCHANGED <<loaded_models, lMeta, storage_calls, loadedSince>>

\* load_model(model_id): self.loaded_models.read().await.get(model_id); a
\* hit returns the cached module at once
LoadCheck(c, m) ==
  /\ lPc[c] = "idle"
  /\ calls < MaxCalls
  /\ calls' = calls + 1
  /\ lActor' = c
  /\ lOp' = [lOp EXCEPT ![c] = "load"]
  /\ lId' = [lId EXCEPT ![c] = m]
  /\ IF loaded_models[m].present
     THEN /\ lPc' = lPc
          /\ lRet' = [lRet EXCEPT ![c] = [tag |-> "Ok", metadata |-> 0]]
          /\ loadedSince' = [loadedSince EXCEPT ![m] = TRUE]
     ELSE /\ lPc' = [lPc EXCEPT ![c] = "path"]
          /\ lRet' = [lRet EXCEPT ![c] = NoResult]
          /\ UNCHANGED loadedSince
  /\ UNCHANGED <<loaded_models, lMeta, storage_calls>>

\* load_model: self.storage.get_model_path(model_id).await, with
\* "Failed to get model path" on an error
LoadPath(c) ==
  /\ lPc[c] = "path"
  /\ lActor' = c
  /\ storage_calls' = storage_calls + 1
  /\ \E ok \in BOOLEAN :
       IF ok
       THEN /\ lPc' = [lPc EXCEPT ![c] = "metadata"]
            /\ UNCHANGED lRet
       ELSE /\ lPc' = [lPc EXCEPT ![c] = "idle"]
            /\ lRet' = [lRet EXCEPT ![c] =
                          [tag |-> "PathError", metadata |-> 0]]
  /\ UNCHANGED <<loaded_models, lOp, lId, lMeta, calls, loadedSince>>

\* load_model: self.load_metadata(&model_path), which reads and parses the
\* json file next to the model
LoadMetadata(c) ==
  /\ lPc[c] = "metadata"
  /\ lActor' = c
  /\ \E ok \in BOOLEAN, v \in MetadataVersions :
       IF ok
       THEN /\ lPc' = [lPc EXCEPT ![c] = "module"]
            /\ lMeta' = [lMeta EXCEPT ![c] = v]
            /\ UNCHANGED lRet
       ELSE /\ lPc' = [lPc EXCEPT ![c] = "idle"]
            /\ lRet' = [lRet EXCEPT ![c] =
                          [tag |-> "MetadataError", metadata |-> 0]]
            /\ UNCHANGED lMeta
  /\ UNCHANGED <<loaded_models, lOp, lId, calls, storage_calls, loadedSince>>

\* load_model: CModule::load_on_device(&model_path, device)
LoadModule(c) ==
  /\ lPc[c] = "module"
  /\ lActor' = c
  /\ \E ok \in BOOLEAN :
       IF ok
       THEN /\ lPc' = [lPc EXCEPT ![c] = "insert"]
            /\ UNCHANGED <<lRet, lMeta>>
       ELSE /\ lPc' = [lPc EXCEPT ![c] = "idle"]
            /\ lRet' = [lRet EXCEPT ![c] =
                          [tag |-> "LoadError", metadata |-> 0]]
            /\ lMeta' = [lMeta EXCEPT ![c] = 0]
  /\ UNCHANGED <<loaded_models, lOp, lId, calls, storage_calls, loadedSince>>

\* load_model: self.loaded_models.write().await.insert(model_id, (model,
\* metadata)), then Ok(Arc::new(model))
LoadInsert(c) ==
  /\ lPc[c] = "insert"
  /\ lActor' = c
  /\ loaded_models' = [loaded_models EXCEPT ![lId[c]] =
                         [present |-> TRUE, metadata |-> lMeta[c]]]
  /\ lPc' = [lPc EXCEPT ![c] = "idle"]
  /\ lRet' = [lRet EXCEPT ![c] = [tag |-> "Ok", metadata |-> 0]]
  /\ lMeta' = [lMeta EXCEPT ![c] = 0]
  /\ loadedSince' = [loadedSince EXCEPT ![lId[c]] = TRUE]
  /\ UNCHANGED <<lOp, lId, calls, storage_calls>>

\* unload_model(model_id): self.loaded_models.write().await.remove(model_id),
\* Ok(()) whether or not there was an entry
UnloadModel(c, m) ==
  /\ lPc[c] = "idle"
  /\ calls < MaxCalls
  /\ calls' = calls + 1
  /\ lActor' = c
  /\ lOp' = [lOp EXCEPT ![c] = "unload"]
  /\ lId' = [lId EXCEPT ![c] = m]
  /\ loaded_models' = [loaded_models EXCEPT ![m] = NoEntry]
  /\ lRet' = [lRet EXCEPT ![c] = [tag |-> "Ok", metadata |-> 0]]
  /\ loadedSince' = [loadedSince EXCEPT ![m] = FALSE]
  /\ UNCHANGED <<lPc, lMeta, storage_calls>>

\* get_model_metadata(model_id): the metadata of the entry, or NotLoaded
GetModelMetadata(c, m) ==
  /\ lPc[c] = "idle"
  /\ calls < MaxCalls
  /\ calls' = calls + 1
  /\ lActor' = c
  /\ lOp' = [lOp EXCEPT ![c] = "get"]
  /\ lId' = [lId EXCEPT ![c] = m]
  /\ lRet' = [lRet EXCEPT ![c] =
                IF loaded_models[m].present
                THEN [tag |-> "Ok", metadata |-> loaded_models[m].metadata]
                ELSE [tag |-> "NotLoaded", metadata |-> 0]]
  /\ UNCHANGED <<loaded_models, lPc, lMeta, storage_calls, loadedSince>>

\* ------------------------------------------------------------ TaskScheduler

\* a push that writes over the tail slot instead of growing the queue
PushBackOverwrite(q, t) ==
  IF q = <<>> THEN <<t>> ELSE [q EXCEPT ![Len(q)] = t]

\* VecDeque::push_back
PushBack(q, t) == Append(q, t)

\* a pop that takes the task with the greatest priority, the first of them
PopHighestPriority(q) ==
  IF q = <<>> THEN [task |-> NoTask, rest |-> q]
  ELSE LET k == CHOOSE i \in 1..Len(q) :
                  /\ \A j \in 1..Len(q) : q[j].priority <= q[i].priority
                  /\ \A j \in 1..(i - 1) : q[j].priority < q[i].priority
       IN  [task |-> q[k],
            rest |-> SubSeq(q, 1, k - 1) \o SubSeq(q, k + 1, Len(q))]

\* a pop that takes the tail (pop_back)
PopBack(q) ==
  IF q = <<>> THEN [task |-> NoTask, rest |-> q]
  ELSE [task |-> q[Len(q)], rest |-> SubSeq(q, 1, Len(q) - 1)]

\* a pop that takes the head and empties the queue (drain)
PopFrontClear(q) ==
  IF q = <<>> THEN [task |-> NoTask, rest |-> q]
  ELSE [task |-> Head(q), rest |-> <<>>]

\* a peek: the head is returned and stays in the queue
PopFrontKeep(q) ==
  IF q = <<>> THEN [task |-> NoTask, rest |-> q]
  ELSE [task |-> Head(q), rest |-> q]

\* VecDeque::pop_front: the head and the rest, or None on an empty queue
PopFront(q) ==
  IF q = <<>> THEN [task |-> NoTask, rest |-> q]
  ELSE [task |-> Head(q), rest |-> Tail(q)]

\* TaskScheduler::get_queue_length
GetQueueLength == Len(queue)

\* GpuManager::acquire_gpu picks the least-loaded gpu, the first one on a
\* tie, and increments its load
RECURSIVE LeastLoaded(_, _, _)
LeastLoaded(ld, best, i) ==
  IF i > NumGpus THEN best
  ELSE LeastLoaded(ld, IF ld[best] > ld[i] THEN i ELSE best, i + 1)
AcquireGpu(ld) ==
  LET g == LeastLoaded(ld, 1, 2)
  IN  [gpu |-> g, load |-> [ld EXCEPT ![g] = @ + 1]]

\* GpuManager::release_gpu decrements the load of the gpu
ReleaseGpu(ld, g) == [ld EXCEPT ![g] = @ - 1]

\* TaskScheduler::new
SchedInit ==
  /\ submitArg = [t \in TaskIds |-> NoTask]
  /\ max_concurrent_tasks = MaxCapacity
  /\ queue = <<>>
  /\ queueLock = Free
  /\ poisoned = FALSE
  /\ submitPc = [t \in TaskIds |-> "idle"]
  /\ runPc = "poll"
  /\ cur = NoTask
  /\ gpu = 0
  /\ load = [g \in Gpus |-> 0]
  /\ queued_tasks = 0
  /\ execution_samples = 0
  /\ overdue_tasks = 0
  /\ completed_tasks = 0
  /\ failed_tasks = 0
  /\ measured = 0
  /\ appended = <<>>
  /\ dispatched = <<>>
  /\ outcome = [t \in TaskIds |-> "none"]
  /\ failure = [t \in TaskIds |-> "none"]
  /\ records = [t \in TaskIds |-> 0]
  /\ preLoad = [g \in Gpus |-> 0]

\* the scheduler is not part of the behaviour
SchedIdle ==
  /\ submitArg = [t \in TaskIds |-> NoTask]
  /\ max_concurrent_tasks = MaxCapacity
  /\ queue = <<>>
  /\ queueLock = Free
  /\ poisoned = FALSE
  /\ submitPc = [t \in TaskIds |-> "idle"]
  /\ runPc = "poll"
  /\ cur = NoTask
  /\ gpu = 0
  /\ load = [g \in Gpus |-> 0]
  /\ queued_tasks = 0
  /\ execution_samples = 0
  /\ overdue_tasks = 0
  /\ completed_tasks = 0
  /\ failed_tasks = 0
  /\ measured = 0
  /\ appended = <<>>
  /\ dispatched = <<>>
  /\ outcome = [t \in TaskIds |-> "none"]
  /\ failure = [t \in TaskIds |-> "none"]
  /\ records = [t \in TaskIds |-> 0]
  /\ preLoad = [g \in Gpus |-> 0]

\* submit_task(task): the caller passes its task, then self.queue.lock()
SubmitLock(t) ==
  /\ submitPc[t] = "idle"
  /\ queueLock = Free
  /\ ~poisoned
  /\ queueLock' = t
  /\ \E task \in SubmittedTasks :
       /\ task.id = t
       /\ submitArg' = [submitArg EXCEPT ![t] = task]
  /\ submitPc' = [submitPc EXCEPT ![t] = "locked"]
  /\ UNCHANGED <<max_concurrent_tasks, completed_tasks, failed_tasks, poisoned, queue, runPc, cur, gpu, load,
                 queued_tasks, execution_samples, overdue_tasks, appended,
                 dispatched, outcome, failure, records, preLoad, measured>>

\* submit_task: queue.push_back(task)
SubmitPush(t) ==
  /\ submitPc[t] = "locked"
  /\ queue' = PushBack(queue, submitArg[t])
  /\ submitArg' = [submitArg EXCEPT ![t] = NoTask]
  /\ appended' = Append(appended, t)
  /\ submitPc' = [submitPc EXCEPT ![t] = "pushed"]
  /\ UNCHANGED <<max_concurrent_tasks, completed_tasks, failed_tasks, poisoned, queueLock, runPc, cur, gpu, load,
                 queued_tasks, execution_samples, overdue_tasks, dispatched,
                 outcome, failure, records, preLoad, measured>>

\* a submit_task that pushes its task before it returns the lock error
SubmitLockErrorAfterPush(t) ==
  /\ submitPc[t] = "idle"
  /\ queueLock = Free
  /\ poisoned
  /\ \E task \in SubmittedTasks :
       /\ task.id = t
       /\ queue' = PushBack(queue, task)
  /\ appended' = Append(appended, t)
  /\ submitPc' = [submitPc EXCEPT ![t] = "failed"]
  /\ UNCHANGED <<submitArg, max_concurrent_tasks, completed_tasks, failed_tasks,
                 poisoned, queueLock, runPc, cur, gpu, load, queued_tasks,
                 execution_samples, overdue_tasks, dispatched, outcome,
                 failure, records, preLoad, measured>>

\* submit_task on a poisoned mutex: lock() returns Err, map_err drops the
\* guard and the call returns Err(LockError); the task is dropped
SubmitLockError(t) ==
  /\ submitPc[t] = "idle"
  /\ queueLock = Free
  /\ poisoned
  /\ submitPc' = [submitPc EXCEPT ![t] = "failed"]
  /\ UNCHANGED <<submitArg, max_concurrent_tasks, completed_tasks, failed_tasks,
                 poisoned, queue, queueLock, runPc, cur, gpu, load,
                 queued_tasks, execution_samples, overdue_tasks, appended,
                 dispatched, outcome, failure, records, preLoad, measured>>

\* submit_task: the metrics call panics while the guard is held; the unwind
\* drops the guard and poisons the mutex, the pushed task stays queued
SubmitPanics(t) ==
  /\ submitPc[t] = "pushed"
  /\ poisoned' = TRUE
  /\ queueLock' = Free
  /\ submitPc' = [submitPc EXCEPT ![t] = "panicked"]
  /\ UNCHANGED <<submitArg, max_concurrent_tasks, completed_tasks, failed_tasks,
                 queue, runPc, cur, gpu, load, queued_tasks, execution_samples,
                 overdue_tasks, appended, dispatched, outcome, failure,
                 records, preLoad, measured>>

\* run on a poisoned mutex: lock().unwrap() panics and the loop ends
RunLockPanics ==
  /\ runPc = "poll"
  /\ queueLock = Free
  /\ poisoned
  /\ runPc' = "panicked"
  /\ UNCHANGED <<submitArg, max_concurrent_tasks, completed_tasks, failed_tasks,
                 poisoned, queue, queueLock, submitPc, cur, gpu, load,
                 queued_tasks, execution_samples, overdue_tasks, appended,
                 dispatched, outcome, failure, records, preLoad, measured>>

\* a submit_task that leaves the queued counter alone
SubmitCountSkipped(t) ==
  /\ submitPc[t] = "pushed"
  /\ queued_tasks' = queued_tasks
  /\ submitPc' = [submitPc EXCEPT ![t] = "counted"]
  /\ UNCHANGED <<submitArg, max_concurrent_tasks, completed_tasks, failed_tasks, poisoned, queue, queueLock, runPc, cur,
                 gpu, load, execution_samples, overdue_tasks, appended,
                 dispatched, outcome, failure, records, preLoad, measured>>

\* submit_task: self.metrics.increment_queued_tasks()
SubmitCount(t) ==
  /\ submitPc[t] = "pushed"
  /\ queued_tasks' = queued_tasks + 1
  /\ submitPc' = [submitPc EXCEPT ![t] = "counted"]
  /\ UNCHANGED <<submitArg, max_concurrent_tasks, completed_tasks, failed_tasks, poisoned, queue, queueLock, runPc, cur,
                 gpu, load, execution_samples, overdue_tasks, appended,
                 dispatched, outcome, failure, records, preLoad, measured>>

\* submit_task: Ok(()), the guard is dropped
SubmitReturn(t) ==
  /\ submitPc[t] = "counted"
  /\ queueLock' = Free
  /\ submitPc' = [submitPc EXCEPT ![t] = "done"]
  /\ UNCHANGED <<submitArg, max_concurrent_tasks, completed_tasks, failed_tasks, poisoned, queue, runPc, cur, gpu, load,
                 queued_tasks, execution_samples, overdue_tasks, appended,
                 dispatched, outcome, failure, records, preLoad, measured>>

\* run: self.queue.lock().unwrap()
RunLock ==
  /\ runPc = "poll"
  /\ queueLock = Free
  /\ ~poisoned
  /\ queueLock' = Dispatcher
  /\ runPc' = "popping"
  /\ UNCHANGED <<submitArg, max_concurrent_tasks, completed_tasks, failed_tasks, poisoned, queue, submitPc, cur, gpu, load,
                 queued_tasks, execution_samples, overdue_tasks, appended,
                 dispatched, outcome, failure, records, preLoad, measured>>

\* a loop that polls again at once when the queue is empty
RunPopBusy ==
  /\ runPc = "popping"
  /\ LET r == PopFront(queue)
     IN  /\ queue' = r.rest
         /\ cur' = r.task
         /\ IF r.task # NoTask
            THEN /\ dispatched' = Append(dispatched, r.task.id)
                 /\ runPc' = "acquire"
            ELSE /\ dispatched' = dispatched
                 /\ runPc' = "poll"
  /\ queueLock' = Free
  /\ UNCHANGED <<submitArg, max_concurrent_tasks, completed_tasks, failed_tasks, poisoned, submitPc, gpu, load,
                 queued_tasks, execution_samples, overdue_tasks, appended,
                 outcome, failure, records, preLoad, measured>>

\* a loop whose guard lives on after the pop, into the processing or sleep
RunPopKeepsLock ==
  /\ runPc = "popping"
  /\ LET r == PopFront(queue)
     IN  /\ queue' = r.rest
         /\ cur' = r.task
         /\ IF r.task # NoTask
            THEN /\ dispatched' = Append(dispatched, r.task.id)
                 /\ runPc' = "acquire"
            ELSE /\ dispatched' = dispatched
                 /\ runPc' = "sleep"
  /\ queueLock' = queueLock
  /\ UNCHANGED <<submitArg, max_concurrent_tasks, completed_tasks, failed_tasks, poisoned, submitPc, gpu, load,
                 queued_tasks, execution_samples, overdue_tasks, appended,
                 outcome, failure, records, preLoad, measured>>

\* run: queue.pop_front(), the guard is dropped at the end of the block
RunPop ==
  /\ runPc = "popping"
  /\ LET r == PopFront(queue)
     IN  /\ queue' = r.rest
         /\ cur' = r.task
         /\ IF r.task # NoTask
            THEN /\ dispatched' = Append(dispatched, r.task.id)
                 /\ runPc' = "acquire"
            ELSE /\ dispatched' = dispatched
                 /\ runPc' = "sleep"
  /\ queueLock' = Free
  /\ UNCHANGED <<submitArg, max_concurrent_tasks, completed_tasks, failed_tasks, poisoned, submitPc, gpu, load,
                 queued_tasks, execution_samples, overdue_tasks, appended,
                 outcome, failure, records, preLoad, measured>>

\* run: tokio::time::sleep(100 ms) on an empty queue
RunSleep ==
  /\ runPc = "sleep"
  /\ runPc' = "poll"
  /\ UNCHANGED <<submitArg, max_concurrent_tasks, completed_tasks, failed_tasks, poisoned, queue, queueLock, submitPc, cur,
                 gpu, load, queued_tasks, execution_samples, overdue_tasks,
                 appended, dispatched, outcome, failure, records, preLoad, measured>>

\* a run loop that discards the result of process_task without logging it
ProcessFailedSilent(e) ==
  /\ UNCHANGED <<outcome, failure, records>>
  /\ measured' = 0
  /\ cur' = NoTask
  /\ gpu' = 0
  /\ runPc' = "poll"

\* a run loop that propagates the error of process_task and returns
ProcessFailedStops(e) ==
  /\ outcome' = [outcome EXCEPT ![cur.id] = "Failed"]
  /\ failure' = [failure EXCEPT ![cur.id] = e]
  /\ records' = [records EXCEPT ![cur.id] = @ + 1]
  /\ measured' = 0
  /\ cur' = NoTask
  /\ gpu' = 0
  /\ runPc' = "stopped"

\* process_task returned Err(e): run logs "Error processing task" and loops;
\* the task and the gpu handle are dropped
ProcessFailed(e) ==
  /\ outcome' = [outcome EXCEPT ![cur.id] = "Failed"]
  /\ failure' = [failure EXCEPT ![cur.id] = e]
  /\ records' = [records EXCEPT ![cur.id] = @ + 1]
  /\ measured' = 0
  /\ cur' = NoTask
  /\ gpu' = 0
  /\ runPc' = "poll"

\* process_task: log::info!("Task {} completed ..."), Ok(())
ProcessCompleted ==
  /\ outcome' = [outcome EXCEPT ![cur.id] = "Completed"]
  /\ UNCHANGED failure
  /\ records' = [records EXCEPT ![cur.id] = @ + 1]
  /\ measured' = 0
  /\ cur' = NoTask
  /\ gpu' = 0
  /\ runPc' = "poll"

\* process_task: self.gpu_manager.acquire_gpu().await?
ProcAcquire ==
  /\ runPc = "acquire"
  /\ \E ok \in BOOLEAN :
       IF ok
       THEN /\ gpu' = AcquireGpu(load).gpu
            /\ load' = AcquireGpu(load).load
            /\ preLoad' = load
            /\ runPc' = "load"
            /\ UNCHANGED <<cur, outcome, failure, records, measured>>
       ELSE /\ ProcessFailed("NoDeviceAvailable")
            /\ UNCHANGED <<load, preLoad>>
  /\ UNCHANGED <<submitArg, max_concurrent_tasks, completed_tasks, failed_tasks, poisoned, queue, queueLock, submitPc,
                 queued_tasks, execution_samples, overdue_tasks, appended,
                 dispatched>>

\* process_task: self.model_loader.load_model(&task.model_id).await?, the
\* call and its look into the cache; a hit returns Ok at once
ProcLoad ==
  /\ runPc = "load"
  /\ lPc[1] = "idle"
  /\ LoadCheck(1, cur.model_id)
  /\ runPc' = IF loaded_models[cur.model_id].present THEN "execute" ELSE "load"
  /\ UNCHANGED <<cur, gpu, outcome, failure, records, measured>>
  /\ UNCHANGED <<submitArg, max_concurrent_tasks, completed_tasks, failed_tasks,
                 poisoned, queue, queueLock, submitPc, load, queued_tasks,
                 execution_samples, overdue_tasks, appended, dispatched,
                 preLoad>>

\* the end of a load_model step inside process_task: an error leaves
\* process_task through `?`, anything else goes on
LoadStepReturns ==
  IF lRet'[1].tag \in LoadErrors
  THEN ProcessFailed("ModelLoadError")
  ELSE UNCHANGED <<cur, gpu, outcome, failure, records, measured, runPc>>

\* load_model inside process_task: get_model_path
ProcLoadPath ==
  /\ runPc = "load"
  /\ LoadPath(1)
  /\ LoadStepReturns
  /\ UNCHANGED <<submitArg, max_concurrent_tasks, completed_tasks, failed_tasks,
                 poisoned, queue, queueLock, submitPc, load, queued_tasks,
                 execution_samples, overdue_tasks, appended, dispatched,
                 preLoad>>

\* load_model inside process_task: load_metadata
ProcLoadMetadata ==
  /\ runPc = "load"
  /\ LoadMetadata(1)
  /\ LoadStepReturns
  /\ UNCHANGED <<submitArg, max_concurrent_tasks, completed_tasks, failed_tasks,
                 poisoned, queue, queueLock, submitPc, load, queued_tasks,
                 execution_samples, overdue_tasks, appended, dispatched,
                 preLoad>>

\* load_model inside process_task: CModule::load_on_device
ProcLoadModule ==
  /\ runPc = "load"
  /\ LoadModule(1)
  /\ LoadStepReturns
  /\ UNCHANGED <<submitArg, max_concurrent_tasks, completed_tasks, failed_tasks,
                 poisoned, queue, queueLock, submitPc, load, queued_tasks,
                 execution_samples, overdue_tasks, appended, dispatched,
                 preLoad>>

\* load_model inside process_task: the insert into the cache and Ok
ProcLoadInsert ==
  /\ runPc = "load"
  /\ LoadInsert(1)
  /\ runPc' = "execute"
  /\ UNCHANGED <<cur, gpu, outcome, failure, records, measured>>
  /\ UNCHANGED <<submitArg, max_concurrent_tasks, completed_tasks, failed_tasks,
                 poisoned, queue, queueLock, submitPc, load, queued_tasks,
                 execution_samples, overdue_tasks, appended, dispatched,
                 preLoad>>

\* any step of the load_model call of process_task
ProcLoadNext ==
  \/ ProcLoad
  \/ ProcLoadPath
  \/ ProcLoadMetadata
  \/ ProcLoadModule
  \/ ProcLoadInsert

\* process_task: execution_time > task.max_duration
IsOverdue(execution_time, max_duration) == execution_time > max_duration

\* process_task: model.execute(task.input_data).await?, which takes some
\* time, then execution_time = start_time.elapsed(), record_task_execution
\* and the max_duration comparison
ProcExecute ==
  /\ runPc = "execute"
  /\ \E ok \in BOOLEAN, elapsed \in Durations :
       IF ok
       THEN /\ measured' = elapsed
            /\ execution_samples' = execution_samples + 1
            /\ overdue_tasks' =
                 IF IsOverdue(measured', cur.max_duration)
                 THEN overdue_tasks + 1
                 ELSE overdue_tasks
            /\ runPc' = "release"
            /\ UNCHANGED <<cur, gpu, outcome, failure, records>>
       ELSE /\ ProcessFailed("ExecutionError")
            /\ UNCHANGED <<execution_samples, overdue_tasks>>
  /\ UNCHANGED <<submitArg, max_concurrent_tasks, completed_tasks, failed_tasks, poisoned, queue, queueLock, submitPc, load,
                 queued_tasks, appended, dispatched, preLoad>>

\* process_task: self.gpu_manager.release_gpu(gpu).await?, then the
\* completion log and Ok(())
ProcRelease ==
  /\ runPc = "release"
  /\ \E ok \in BOOLEAN :
       IF ok
       THEN /\ load' = ReleaseGpu(load, gpu)
            /\ ProcessCompleted
       ELSE /\ ProcessFailed("ReleaseError")
            /\ UNCHANGED load
  /\ UNCHANGED <<submitArg, max_concurrent_tasks, completed_tasks, failed_tasks, poisoned, queue, queueLock, submitPc,
                 queued_tasks, execution_samples, overdue_tasks, appended,
                 dispatched, preLoad>>

\* the steps of the run loop outside its load_model call
RunNext ==
  \/ RunLock
  \/ RunPop
  \/ RunSleep
  \/ ProcAcquire
  \/ ProcExecute
  \/ ProcRelease

SubmitNext(t) ==
  \/ SubmitLock(t)
  \/ SubmitPush(t)
  \/ SubmitCount(t)
  \/ SubmitReturn(t)

\* ------------------------------------- two schedulers, priorities differ

\* The second scheduler receives every call the first one receives, with the
\* same id and max_duration and a priority of its own, is scheduled in
\* lockstep with it, and its collaborators return what the first one's
\* return (same Ok / Err, same execution time).

\* the priorities given to the second scheduler's tasks: the lowest and the
\* highest one, so that every order of two priorities occurs on both sides
TwinPriorities == {1, MaxPriority}

\* TaskScheduler::new
TwinInit ==
  /\ twSubmitArg = [t \in TaskIds |-> NoTask]
  /\ twQueue = <<>>
  /\ twCur = NoTask
  /\ twGpu = 0
  /\ twLoad = [g \in Gpus |-> 0]
  /\ twQueued = 0
  /\ twSamples = 0
  /\ twOverdue = 0
  /\ twDispatched = <<>>
  /\ twOutcome = [t \in TaskIds |-> "none"]
  /\ twLoadedModels = [m \in ModelIds |-> NoEntry]

\* submit_task(task): the same task with a priority of its own
TwinSubmitLock(t) ==
  /\ \E p \in TwinPriorities :
       twSubmitArg' =
         [twSubmitArg EXCEPT ![t] = [submitArg'[t] EXCEPT !.priority = p]]
  /\ UNCHANGED <<twQueue, twCur, twGpu, twLoad, twQueued, twSamples, twOverdue,
                 twDispatched, twOutcome,
                 twLoadedModels>>

\* submit_task: queue.push_back(task)
TwinSubmitPush(t) ==
  /\ twQueue' = PushBack(twQueue, twSubmitArg[t])
  /\ twSubmitArg' = [twSubmitArg EXCEPT ![t] = NoTask]
  /\ UNCHANGED <<twCur, twGpu, twLoad, twQueued, twSamples, twOverdue,
                 twDispatched, twOutcome,
                 twLoadedModels>>

\* submit_task: self.metrics.increment_queued_tasks()
TwinSubmitCount(t) ==
  /\ twQueued' = twQueued + 1
  /\ UNCHANGED <<twSubmitArg, twQueue, twCur, twGpu, twLoad, twSamples,
                 twOverdue, twDispatched, twOutcome,
                 twLoadedModels>>

\* run: queue.pop_front()
TwinRunPop ==
  /\ LET r == PopFront(twQueue)
     IN  /\ twQueue' = r.rest
         /\ twCur' = r.task
         /\ twDispatched' =
              IF r.task # NoTask THEN Append(twDispatched, r.task.id)
              ELSE twDispatched
  /\ UNCHANGED <<twSubmitArg, twGpu, twLoad, twQueued, twSamples, twOverdue,
                 twOutcome,
                 twLoadedModels>>

\* process_task returned Err: run logs it and loops
TwinProcessFailed ==
  /\ twOutcome' = [twOutcome EXCEPT ![twCur.id] = "Failed"]
  /\ twCur' = NoTask
  /\ twGpu' = 0

\* process_task: Ok(())
TwinProcessCompleted ==
  /\ twOutcome' = [twOutcome EXCEPT ![twCur.id] = "Completed"]
  /\ twCur' = NoTask
  /\ twGpu' = 0

\* process_task: acquire_gpu().await?, with the result the first scheduler got
TwinProcAcquire ==
  /\ IF runPc' = "load"
     THEN /\ twGpu' = AcquireGpu(twLoad).gpu
          /\ twLoad' = AcquireGpu(twLoad).load
          /\ UNCHANGED <<twCur, twOutcome>>
     ELSE /\ TwinProcessFailed
          /\ UNCHANGED twLoad
  /\ UNCHANGED <<twSubmitArg, twQueue, twQueued, twSamples, twOverdue,
                 twDispatched,
                 twLoadedModels>>

\* process_task: load_model().await?, step by step with the first
\* scheduler and with the results its loader got: the insert writes the
\* entry of this scheduler's own task into this scheduler's loader
TwinProcLoad ==
  /\ IF runPc' = "execute"
     THEN /\ UNCHANGED <<twCur, twGpu, twOutcome>>
          /\ twLoadedModels' =
               IF lPc[1] = "insert"
               THEN [twLoadedModels EXCEPT ![twCur.model_id] =
                       [present |-> TRUE, metadata |-> lMeta[1]]]
               ELSE twLoadedModels
     ELSE IF runPc' = "load"
     THEN UNCHANGED <<twCur, twGpu, twOutcome, twLoadedModels>>
     ELSE /\ TwinProcessFailed
          /\ UNCHANGED twLoadedModels
  /\ UNCHANGED <<twSubmitArg, twQueue, twLoad, twQueued, twSamples, twOverdue,
                 twDispatched>>

\* process_task: execute().await?, record_task_execution and the comparison
\* of the same execution time with its own task's max_duration
TwinProcExecute ==
  /\ IF runPc' = "release"
     THEN /\ twSamples' = twSamples + 1
          /\ twOverdue' =
               IF IsOverdue(measured', twCur.max_duration)
               THEN twOverdue + 1
               ELSE twOverdue
          /\ UNCHANGED <<twCur, twGpu, twOutcome>>
     ELSE /\ TwinProcessFailed
          /\ UNCHANGED <<twSamples, twOverdue>>
  /\ UNCHANGED <<twSubmitArg, twQueue, twLoad, twQueued, twDispatched,
                 twLoadedModels>>

\* process_task: release_gpu(gpu).await?, Ok(())
TwinProcRelease ==
  /\ IF failure'[cur.id] # "ReleaseError"
     THEN /\ twLoad' = ReleaseGpu(twLoad, twGpu)
          /\ TwinProcessCompleted
     ELSE /\ TwinProcessFailed
          /\ UNCHANGED twLoad
  /\ UNCHANGED <<twSubmitArg, twQueue, twQueued, twSamples, twOverdue,
                 twDispatched,
                 twLoadedModels>>

\* --------------------------------------------------------------- GPUManager

\* initialize_devices: the loop pushes, in enumeration order, every device
\* whose memory() is at least config.min_memory
\* a filter that drops a device whose memory equals the threshold
RECURSIVE RetainDevicesStrict(_, _)
RetainDevicesStrict(available, minMem) ==
  IF available = <<>> THEN <<>>
  ELSE (IF Head(available).memory > minMem THEN <<Head(available)>> ELSE <<>>)
       \o RetainDevicesStrict(Tail(available), minMem)

RECURSIVE RetainDevices(_, _)
RetainDevices(available, minMem) ==
  IF available = <<>> THEN <<>>
  ELSE (IF Head(available).memory >= minMem THEN <<Head(available)>> ELSE <<>>)
       \o RetainDevices(Tail(available), minMem)

\* initialize_devices: Err when enumerate() fails or nothing was retained
InitializeDevices(available, enumOk, minMem) ==
  IF ~enumOk THEN [ok |-> FALSE, devices |-> <<>>]
  ELSE LET kept == RetainDevices(available, minMem)
       IN  [ok |-> kept # <<>>, devices |-> kept]

\* Iterator::min_by_key: a left fold that replaces the kept element only by
\* one whose key is strictly smaller, so the first minimum wins
\* a fold in which the last minimum wins
RECURSIVE MinByLoadLast(_, _)
MinByLoadLast(best, rest) ==
  IF rest = <<>> THEN best
  ELSE MinByLoadLast(IF best.load >= Head(rest).load THEN Head(rest) ELSE best,
                     Tail(rest))

RECURSIVE MinByLoad(_, _)
MinByLoad(best, rest) ==
  IF rest = <<>> THEN best
  ELSE MinByLoad(IF best.load > Head(rest).load THEN Head(rest) ELSE best,
                 Tail(rest))

\* select_available_device: a clone of the least-loaded device, or None;
\* the registry is only read
SelectAvailableDevice(devs) ==
  IF devs = <<>> THEN NoDevice ELSE MinByLoad(Head(devs), Tail(devs))

\* GPUDevice::memory_info, whose body is not in the repository's sources:
\* by the specification a device's snapshot {total, used} is derived from
\* the device, total being its total memory and used what is in use at the
\* time of the call
MemoryInfo(d, used) == [total |-> d.memory, used |-> used]

\* readings that are not held to the device's total memory
UsedSnapshotsUnchecked(devs) == [1..Len(devs) -> MemoryValues]

\* the used-memory readings the devices of a registry can report; by the
\* specification used <= total holds of every snapshot, and a reading is a
\* part of the memory or all of it
UsedSnapshots(devs) ==
  { u \in [1..Len(devs) -> MemoryValues] :
      \A i \in 1..Len(devs) : u[i] \in {2, devs[i].memory} }

\* get_gpu_stats: one memory_info entry per device, in registry order
GetGpuStats(devs, used) ==
  [i \in 1..Len(devs) |-> MemoryInfo(devs[i], used[i])]

\* no call has returned yet; a call that ended in Err at a memory_info read
NoStats == [returned |-> FALSE, failed |-> FALSE, entries |-> <<>>]
StatsError == [returned |-> FALSE, failed |-> TRUE, entries |-> <<>>]

\* before GPUManager::new
GpuInit ==
  /\ enumerated \in DeviceLists
  /\ enumerate_ok \in BOOLEAN
  /\ min_memory \in MinMemoryValues
  /\ devices = <<>>
  /\ initResult = "pending"
  /\ channel = <<>>
  /\ rxClosed = FALSE
  /\ sendPc = [t \in TaskIds |-> "idle"]
  /\ gmPc = "new"
  /\ gCur = 0
  /\ gSel = NoDevice
  /\ gOutcome = [t \in TaskIds |-> "none"]
  /\ gPreDevices = <<>>
  /\ devLock = "free"
  /\ statsPc = "idle"
  /\ stats = NoStats

\* the manager is not part of the behaviour
GpuIdle ==
  /\ enumerated = <<>>
  /\ enumerate_ok = TRUE
  /\ min_memory = 4
  /\ devices = <<>>
  /\ initResult = "pending"
  /\ channel = <<>>
  /\ rxClosed = FALSE
  /\ sendPc = [t \in TaskIds |-> "idle"]
  /\ gmPc = "new"
  /\ gCur = 0
  /\ gSel = NoDevice
  /\ gOutcome = [t \in TaskIds |-> "none"]
  /\ gPreDevices = <<>>
  /\ devLock = "free"
  /\ statsPc = "idle"
  /\ stats = NoStats

\* a constructor that spawns process_task_queue whatever initialize_devices
\* returned
GNewIgnoresError ==
  /\ gmPc = "new"
  /\ LET r == InitializeDevices(enumerated, enumerate_ok, min_memory)
     IN  /\ devices' = r.devices
         /\ initResult' = IF r.ok THEN "Ok" ELSE "Err"
         /\ gmPc' = "recv"
  /\ UNCHANGED <<enumerated, enumerate_ok, min_memory, rxClosed, channel, sendPc, gCur,
                 gSel, gOutcome, gPreDevices, devLock, statsPc, stats>>

\* GPUManager::new: initialize_devices, then on success the manager is built
\* and process_task_queue is spawned
GNew ==
  /\ gmPc = "new"
  /\ LET r == InitializeDevices(enumerated, enumerate_ok, min_memory)
     IN  /\ devices' = r.devices
         /\ initResult' = IF r.ok THEN "Ok" ELSE "Err"
         /\ gmPc' = IF r.ok THEN "recv" ELSE "failed"
  /\ UNCHANGED <<enumerated, enumerate_ok, min_memory, rxClosed, channel, sendPc, gCur,
                 gSel, gOutcome, gPreDevices, devLock, statsPc, stats>>

\* GPUManager::submit_task: task_queue.send(task).await, which waits while
\* the channel is full; the tasks are opaque to the manager, and their ids
\* number the sends in the order in which they complete
GSubmit(t) ==
  /\ initResult = "Ok"
  /\ ~rxClosed
  /\ sendPc[t] = "idle"
  /\ \A u \in 1..(t - 1) : sendPc[u] = "done"
  /\ Len(channel) < ChannelCapacity
  /\ channel' = Append(channel, t)
  /\ sendPc' = [sendPc EXCEPT ![t] = "done"]
  /\ UNCHANGED <<enumerated, enumerate_ok, min_memory, devices, initResult, rxClosed,
                 gmPc, gCur, gSel, gOutcome, gPreDevices, devLock, statsPc,
                 stats>>

\* GPUManager::submit_task on a closed channel: send returns Err, which
\* becomes "Failed to submit task to GPU queue"; the task is dropped
GSubmitError(t) ==
  /\ initResult = "Ok"
  /\ rxClosed
  /\ sendPc[t] = "idle"
  /\ \A u \in 1..(t - 1) : sendPc[u] \in {"done", "failed"}
  /\ sendPc' = [sendPc EXCEPT ![t] = "failed"]
  /\ UNCHANGED <<enumerated, enumerate_ok, min_memory, devices, initResult,
                 rxClosed, channel, gmPc, gCur, gSel, gOutcome, gPreDevices,
                 devLock, statsPc, stats>>

\* process_task_queue: execute_task panics; the spawned task ends and its
\* Receiver is dropped, which closes the channel and drains it: the tasks
\* it still held are dropped with it
GQueueTaskPanics ==
  /\ gmPc = "execute"
  /\ rxClosed' = TRUE
  /\ channel' = <<>>
  /\ gOutcome' = [t \in TaskIds |->
                    IF t = gCur THEN "Panicked"
                    ELSE IF \E i \in 1..Len(channel) : channel[i] = t
                         THEN "Dropped"
                         ELSE gOutcome[t]]
  /\ gCur' = 0
  /\ gSel' = NoDevice
  /\ gmPc' = "ended"
  /\ UNCHANGED <<enumerated, enumerate_ok, min_memory, devices, initResult,
                 sendPc, gPreDevices, devLock, statsPc, stats>>

\* process_task_queue: rx.recv().await
GRecv ==
  /\ gmPc = "recv"
  /\ channel # <<>>
  /\ gCur' = Head(channel)
  /\ channel' = Tail(channel)
  /\ gmPc' = "select"
  /\ UNCHANGED <<enumerated, enumerate_ok, min_memory, devices, initResult, rxClosed,
                 sendPc, gSel, gOutcome, gPreDevices, devLock, statsPc, stats>>

\* select_available_device: devices.lock()
GSelectLock ==
  /\ gmPc = "select"
  /\ devLock = "free"
  /\ devLock' = "queue"
  /\ gmPc' = "selecting"
  /\ UNCHANGED <<enumerated, enumerate_ok, min_memory, devices, initResult, rxClosed,
                 channel, sendPc, gCur, gSel, gOutcome, gPreDevices, statsPc,
                 stats>>

\* a selection whose guard outlives the call and is kept while the task runs
GSelectKeepsLock ==
  /\ gmPc = "selecting"
  /\ gPreDevices' = devices
  /\ gSel' = SelectAvailableDevice(devices)
  /\ gmPc' = "execute"
  /\ UNCHANGED <<enumerated, enumerate_ok, min_memory, devices, initResult, rxClosed,
                 channel, sendPc, gCur, gOutcome, devLock, statsPc, stats>>

\* process_task_queue: select_available_device returns and drops the guard;
\* on None the task is dropped after the debug log
GSelect ==
  /\ gmPc = "selecting"
  /\ devLock' = "free"
  /\ gPreDevices' = devices
  /\ gSel' = SelectAvailableDevice(devices)
  /\ IF SelectAvailableDevice(devices) # NoDevice
     THEN /\ gmPc' = "execute"
          /\ UNCHANGED <<gCur, gOutcome>>
     ELSE /\ gmPc' = "recv"
          /\ gOutcome' = [gOutcome EXCEPT ![gCur] = "dropped"]
          /\ gCur' = 0
  /\ UNCHANGED <<enumerated, enumerate_ok, min_memory, devices, initResult, rxClosed,
                 channel, sendPc, statsPc, stats>>

\* an execution that takes a device out of the registry when its task fails
GExecuteDropsFailedDevice ==
  /\ gmPc = "execute"
  /\ \E ok \in BOOLEAN :
       /\ gOutcome' = [gOutcome EXCEPT ![gCur] = IF ok THEN "Completed" ELSE "Failed"]
       /\ devices' = IF ok THEN devices
                   ELSE SelectSeq(devices, LAMBDA d : d.id # gSel.id)
  /\ gCur' = 0
  /\ gSel' = NoDevice
  /\ gmPc' = "recv"
  /\ UNCHANGED <<enumerated, enumerate_ok, min_memory, initResult, rxClosed,
                 channel, sendPc, gPreDevices, devLock, statsPc, stats>>

\* process_task_queue: gpu.execute_task(task).await on the clone; an error
\* is logged and the loop goes on
GExecute ==
  /\ gmPc = "execute"
  /\ \E ok \in BOOLEAN :
       gOutcome' = [gOutcome EXCEPT ![gCur] = IF ok THEN "Completed" ELSE "Failed"]
  /\ gCur' = 0
  /\ gSel' = NoDevice
  /\ gmPc' = "recv"
  /\ UNCHANGED <<enumerated, enumerate_ok, min_memory, devices, initResult, rxClosed,
                 channel, sendPc, gPreDevices, devLock, statsPc, stats>>

\* get_gpu_stats: self.devices.lock() and the fresh result vector
GStatsLock ==
  /\ initResult = "Ok"
  /\ statsPc = "idle"
  /\ devLock = "free"
  /\ devLock' = "stats"
  /\ statsPc' = "locked"
  /\ stats' = NoStats
  /\ UNCHANGED <<enumerated, enumerate_ok, min_memory, devices, initResult, rxClosed,
                 channel, sendPc, gmPc, gCur, gSel, gOutcome, gPreDevices>>

\* get_gpu_stats: the loop over the registry; a memory_info read that fails
\* ends the call with Err, otherwise Ok(stats); the guard is dropped
GStats ==
  /\ statsPc = "locked"
  /\ \E ok \in BOOLEAN :
       IF ok \/ devices = <<>>
         THEN \E used \in UsedSnapshots(devices) :
                stats' = [returned |-> TRUE, failed |-> FALSE,
                          entries |-> GetGpuStats(devices, used)]
         ELSE stats' = StatsError
  /\ devLock' = "free"
  /\ statsPc' = "idle"
  /\ UNCHANGED <<enumerated, enumerate_ok, min_memory, devices, initResult, rxClosed,
                 channel, sendPc, gmPc, gCur, gSel, gOutcome, gPreDevices>>

\* ------------------------------------------ select_available_device alone

SelInit ==
  /\ selIn \in DeviceLists
  /\ selOut = NoDevice
  /\ selDone = FALSE

SelIdle ==
  /\ selIn = <<>>
  /\ selOut = NoDevice
  /\ selDone = FALSE

SelApply ==
  /\ ~selDone
  /\ selOut' = SelectAvailableDevice(selIn)
  /\ selDone' = TRUE
  /\ UNCHANGED selIn

\* ----------------------------------------------------------- DataValidator

\* DataItem: Text(String), Image(Vec<u8>), Numeric(f64).  size is the byte
\* length of a text or image and the value of a number in tenths; nan marks
\* the f64 NaN; id is what data.id() returns
TextLengths == {0, 1, 1000, 1001}
ImageLengths == {0, 1, 10000000, 10000001}
NumericTenths == {-1, 0, 5, 10, 11}
ItemIds == {"a", "b"}
DataItems ==
  [kind : {"Text"}, size : TextLengths, nan : {FALSE}, id : ItemIds]
    \cup [kind : {"Image"}, size : ImageLengths, nan : {FALSE}, id : ItemIds]
    \cup [kind : {"Numeric"}, size : NumericTenths, nan : {FALSE}, id : ItemIds]
    \cup [kind : {"Numeric"}, size : {0}, nan : {TRUE}, id : ItemIds]
NoItem == [kind |-> "Text", size |-> 0, nan |-> FALSE, id |-> "a"]

\* the results a consensus round can produce; confidence in percent
ConsensusResults ==
  [is_valid : BOOLEAN, confidence : {50, 95}, validator_count : 1..MaxValidators]
NoValidation == [is_valid |-> FALSE, confidence |-> 0, validator_count |-> 0]
NoReturn == [tag |-> "none", value |-> NoValidation]

\* is_valid_format
IsValidFormat(data) ==
  CASE data.kind = "Text" -> data.size # 0 /\ data.size <= 1000
    [] data.kind = "Image" -> data.size > 0 /\ data.size <= 10000000
    [] data.kind = "Numeric" ->
         ~data.nan /\ data.size >= 0 /\ data.size <= 10

\* a conversion that loses the validator count
ToValidationResultNoCount(consensus_result) ==
  [is_valid |-> consensus_result.is_valid,
   confidence |-> consensus_result.confidence,
   validator_count |-> 0]

\* reach_consensus: the ValidationResult built from the consensus result
ToValidationResult(consensus_result) ==
  [is_valid |-> consensus_result.is_valid,
   confidence |-> consensus_result.confidence,
   validator_count |-> consensus_result.validator_count]

\* DataValidator::new and the item handed to validate_data
ValInit ==
  /\ vData \in DataItems
  /\ vPc = "format"
  /\ vConsensus = NoValidation
  /\ vValidation = NoValidation
  /\ vStore = <<>>
  /\ vConsensusCalls = 0
  /\ vStoreCalls = 0
  /\ vReturn = NoReturn

\* the validator is not part of the behaviour
ValIdle ==
  /\ vData = NoItem
  /\ vPc = "format"
  /\ vConsensus = NoValidation
  /\ vValidation = NoValidation
  /\ vStore = <<>>
  /\ vConsensusCalls = 0
  /\ vStoreCalls = 0
  /\ vReturn = NoReturn

\* a validate_data that goes on to the consensus whatever the format is
VFormatUnchecked ==
  /\ vPc = "format"
  /\ vPc' = "consensus"
  /\ UNCHANGED <<vData, vConsensus, vValidation, vStore, vConsensusCalls,
                 vStoreCalls, vReturn>>

\* validate_data: if !is_valid_format(&data) return Err(InvalidFormat)
VFormat ==
  /\ vPc = "format"
  /\ IF IsValidFormat(vData)
     THEN /\ vPc' = "consensus"
          /\ UNCHANGED vReturn
     ELSE /\ vPc' = "done"
          /\ vReturn' = [tag |-> "InvalidFormat", value |-> NoValidation]
  /\ UNCHANGED <<vData, vConsensus, vValidation, vStore, vConsensusCalls,
                 vStoreCalls>>

\* validate_data: self.reach_consensus(&data).await?; an error of the
\* consensus manager becomes ConsensusFailure
VConsensus ==
  /\ vPc = "consensus"
  /\ vConsensusCalls' = vConsensusCalls + 1
  /\ \E ok \in BOOLEAN, consensus_result \in ConsensusResults :
       IF ok
       THEN /\ vConsensus' = consensus_result
            /\ vValidation' = ToValidationResult(consensus_result)
            /\ vPc' = "store"
            /\ UNCHANGED vReturn
       ELSE /\ vPc' = "done"
            /\ vReturn' = [tag |-> "ConsensusFailure", value |-> NoValidation]
            /\ UNCHANGED <<vConsensus, vValidation>>
  /\ UNCHANGED <<vData, vStore, vStoreCalls>>

\* validate_data: self.store_validation_result(&data, &validation_result)
\* .await?, then Ok(validation_result); an error of the store becomes
\* DatabaseError
VStore ==
  /\ vPc = "store"
  /\ vStoreCalls' = vStoreCalls + 1
  /\ \E ok \in BOOLEAN :
       IF ok
       THEN /\ vStore' = Append(vStore, [id |-> vData.id, result |-> vValidation])
            /\ vReturn' = [tag |-> "Ok", value |-> vValidation]
       ELSE /\ vReturn' = [tag |-> "DatabaseError", value |-> NoValidation]
            /\ UNCHANGED vStore
  /\ vPc' = "done"
  /\ UNCHANGED <<vData, vConsensus, vValidation, vConsensusCalls>>

\* ------------------------------------------- a second run loop on the queue
\* Nothing in TaskScheduler keeps run from being called twice on one
\* scheduler; the second loop shares the queue, the gpu manager and the
\* metrics with the first and has its own task and gpu

\* no second loop has popped anything yet
Loop2Init ==
  /\ r2Pc = "poll"
  /\ r2Cur = NoTask
  /\ r2Gpu = 0
  /\ handed = [t \in TaskIds |-> 0]

\* run: self.queue.lock().unwrap()
Run2Lock ==
  /\ r2Pc = "poll"
  /\ queueLock = Free
  /\ ~poisoned
  /\ queueLock' = Dispatcher2
  /\ r2Pc' = "popping"
  /\ UNCHANGED <<submitArg, max_concurrent_tasks, completed_tasks, failed_tasks,
                 poisoned, submitPc, runPc, cur, gpu, queued_tasks, appended,
                 preLoad, measured, queue, load, execution_samples, overdue_tasks,
                 dispatched, outcome, failure, records, r2Cur, r2Gpu, handed>>

\* run: queue.pop_front(), the guard is dropped at the end of the block
Run2Pop ==
  /\ r2Pc = "popping"
  /\ LET r == PopFront(queue)
     IN  /\ queue' = r.rest
         /\ r2Cur' = r.task
         /\ IF r.task # NoTask
            THEN /\ dispatched' = Append(dispatched, r.task.id)
                 /\ r2Pc' = "acquire"
            ELSE /\ dispatched' = dispatched
                 /\ r2Pc' = "sleep"
  /\ queueLock' = Free
  /\ UNCHANGED <<submitArg, max_concurrent_tasks, completed_tasks, failed_tasks,
                 poisoned, submitPc, runPc, cur, gpu, queued_tasks, appended,
                 preLoad, measured, load, execution_samples, overdue_tasks, outcome,
                 failure, records, r2Gpu, handed>>

\* run: tokio::time::sleep(100 ms) on an empty queue
Run2Sleep ==
  /\ r2Pc = "sleep"
  /\ r2Pc' = "poll"
  /\ UNCHANGED <<submitArg, max_concurrent_tasks, completed_tasks, failed_tasks,
                 poisoned, submitPc, runPc, cur, gpu, queued_tasks, appended,
                 preLoad, measured, queue, queueLock, load, execution_samples,
                 overdue_tasks, dispatched, outcome, failure, records, r2Cur,
                 r2Gpu, handed>>

\* a run loop that puts a task whose processing failed back on the queue
Process2FailedRequeues(e) ==
  /\ outcome' = [outcome EXCEPT ![r2Cur.id] = "Failed"]
  /\ failure' = [failure EXCEPT ![r2Cur.id] = e]
  /\ records' = [records EXCEPT ![r2Cur.id] = @ + 1]
  /\ queue' = PushBack(queue, r2Cur)
  /\ r2Cur' = NoTask
  /\ r2Gpu' = 0
  /\ r2Pc' = "poll"

\* process_task returned Err(e): run logs "Error processing task" and loops;
\* the task and the gpu handle are dropped, the queue is not touched
Process2Failed(e) ==
  /\ outcome' = [outcome EXCEPT ![r2Cur.id] = "Failed"]
  /\ failure' = [failure EXCEPT ![r2Cur.id] = e]
  /\ records' = [records EXCEPT ![r2Cur.id] = @ + 1]
  /\ queue' = queue
  /\ r2Cur' = NoTask
  /\ r2Gpu' = 0
  /\ r2Pc' = "poll"

\* process_task: log::info!("Task {} completed ..."), Ok(())
Process2Completed ==
  /\ outcome' = [outcome EXCEPT ![r2Cur.id] = "Completed"]
  /\ UNCHANGED failure
  /\ records' = [records EXCEPT ![r2Cur.id] = @ + 1]
  /\ queue' = queue
  /\ r2Cur' = NoTask
  /\ r2Gpu' = 0
  /\ r2Pc' = "poll"

\* process_task: self.gpu_manager.acquire_gpu().await?
Proc2Acquire ==
  /\ r2Pc = "acquire"
  /\ \E ok \in BOOLEAN :
       IF ok
       THEN /\ r2Gpu' = AcquireGpu(load).gpu
            /\ load' = AcquireGpu(load).load
            /\ r2Pc' = "load"
            /\ UNCHANGED <<r2Cur, queue, outcome, failure, records>>
       ELSE /\ Process2Failed("NoDeviceAvailable")
            /\ UNCHANGED load
  /\ UNCHANGED <<submitArg, max_concurrent_tasks, completed_tasks, failed_tasks,
                 poisoned, submitPc, runPc, cur, gpu, queued_tasks, appended,
                 preLoad, measured, queueLock, execution_samples, overdue_tasks, dispatched,
                 handed>>

\* process_task: self.model_loader.load_model(&task.model_id).await?, the
\* call and its look into the cache; a hit returns Ok at once
Proc2Load ==
  /\ r2Pc = "load"
  /\ lPc[2] = "idle"
  /\ LoadCheck(2, r2Cur.model_id)
  /\ r2Pc' = IF loaded_models[r2Cur.model_id].present THEN "execute" ELSE "load"
  /\ UNCHANGED <<r2Cur, r2Gpu, queue, outcome, failure, records>>
  /\ UNCHANGED <<submitArg, max_concurrent_tasks, completed_tasks, failed_tasks,
                 poisoned, submitPc, runPc, cur, gpu, queued_tasks, appended,
                 preLoad, measured, queueLock, load, execution_samples,
                 overdue_tasks, dispatched, handed>>

\* the end of a load_model step inside process_task: an error leaves
\* process_task through `?`, anything else goes on
Load2StepReturns ==
  IF lRet'[2].tag \in LoadErrors
  THEN Process2Failed("ModelLoadError")
  ELSE UNCHANGED <<r2Cur, r2Gpu, queue, outcome, failure, records, r2Pc>>

\* load_model inside process_task: get_model_path
Proc2LoadPath ==
  /\ r2Pc = "load"
  /\ LoadPath(2)
  /\ Load2StepReturns
  /\ UNCHANGED <<submitArg, max_concurrent_tasks, completed_tasks, failed_tasks,
                 poisoned, submitPc, runPc, cur, gpu, queued_tasks, appended,
                 preLoad, measured, queueLock, load, execution_samples,
                 overdue_tasks, dispatched, handed>>

\* load_model inside process_task: load_metadata
Proc2LoadMetadata ==
  /\ r2Pc = "load"
  /\ LoadMetadata(2)
  /\ Load2StepReturns
  /\ UNCHANGED <<submitArg, max_concurrent_tasks, completed_tasks, failed_tasks,
                 poisoned, submitPc, runPc, cur, gpu, queued_tasks, appended,
                 preLoad, measured, queueLock, load, execution_samples,
                 overdue_tasks, dispatched, handed>>

\* load_model inside process_task: CModule::load_on_device
Proc2LoadModule ==
  /\ r2Pc = "load"
  /\ LoadModule(2)
  /\ Load2StepReturns
  /\ UNCHANGED <<submitArg, max_concurrent_tasks, completed_tasks, failed_tasks,
                 poisoned, submitPc, runPc, cur, gpu, queued_tasks, appended,
                 preLoad, measured, queueLock, load, execution_samples,
                 overdue_tasks, dispatched, handed>>

\* load_model inside process_task: the insert into the cache and Ok
Proc2LoadInsert ==
  /\ r2Pc = "load"
  /\ LoadInsert(2)
  /\ r2Pc' = "execute"
  /\ UNCHANGED <<r2Cur, r2Gpu, queue, outcome, failure, records>>
  /\ UNCHANGED <<submitArg, max_concurrent_tasks, completed_tasks, failed_tasks,
                 poisoned, submitPc, runPc, cur, gpu, queued_tasks, appended,
                 preLoad, measured, queueLock, load, execution_samples,
                 overdue_tasks, dispatched, handed>>

\* process_task: model.execute(task.input_data).await?, the elapsed time,
\* record_task_execution and the max_duration comparison
Proc2Execute ==
  /\ r2Pc = "execute"
  /\ handed' = [handed EXCEPT ![r2Cur.id] = @ + 1]
  /\ \E ok \in BOOLEAN, elapsed \in Durations :
       IF ok
       THEN /\ execution_samples' = execution_samples + 1
            /\ overdue_tasks' =
                 IF IsOverdue(elapsed, r2Cur.max_duration)
                 THEN overdue_tasks + 1
                 ELSE overdue_tasks
            /\ r2Pc' = "release"
            /\ UNCHANGED <<r2Cur, r2Gpu, queue, outcome, failure, records>>
       ELSE /\ Process2Failed("ExecutionError")
            /\ UNCHANGED <<execution_samples, overdue_tasks>>
  /\ UNCHANGED <<submitArg, max_concurrent_tasks, completed_tasks, failed_tasks,
                 poisoned, submitPc, runPc, cur, gpu, queued_tasks, appended,
                 preLoad, measured, queueLock, load, dispatched>>

\* process_task: self.gpu_manager.release_gpu(gpu).await?, then the
\* completion log and Ok(())
Proc2Release ==
  /\ r2Pc = "release"
  /\ \E ok \in BOOLEAN :
       IF ok
       THEN /\ load' = ReleaseGpu(load, r2Gpu)
            /\ Process2Completed
       ELSE /\ Process2Failed("ReleaseError")
            /\ UNCHANGED load
  /\ UNCHANGED <<submitArg, max_concurrent_tasks, completed_tasks, failed_tasks,
                 poisoned, submitPc, runPc, cur, gpu, queued_tasks, appended,
                 preLoad, measured, queueLock, execution_samples, overdue_tasks, dispatched,
                 handed>>

\* the first loop's model.execute call, counted per task
ProcExecuteHanded ==
  /\ ProcExecute
  /\ handed' = [handed EXCEPT ![cur.id] = @ + 1]
  /\ UNCHANGED <<r2Pc, r2Cur, r2Gpu>>

\* ------------------------------------------ the time spent in process_task
\* no task is being processed
TimeIdle == clock = 0

\* process_task: acquire_gpu returned, the time since then is counted
TimedAcquire ==
  /\ ProcAcquire
  /\ clock' = 0

\* process_task: load_model takes some time before it returns
TimedLoad ==
  /\ ProcLoadNext
  /\ \E loading \in LoadTimes :
       clock' = IF runPc' = "execute" THEN clock + loading
                ELSE IF runPc' = "load" THEN clock
                ELSE 0

\* process_task: execute takes the time that start_time.elapsed() measures
TimedExecute ==
  /\ ProcExecute
  /\ clock' = IF runPc' = "release" THEN clock + measured' ELSE 0

\* process_task: the task is done with
TimedRelease ==
  /\ ProcRelease
  /\ clock' = 0

\* ----------------------------------------------------------- specifications

Init ==
  SchedInit /\ GpuIdle /\ SelIdle /\ TwinInit /\ ValIdle /\ Loop2Init /\ TimeIdle
  /\ MlIdle

Next ==
  \/ \E t \in TaskIds : SubmitLock(t) /\ UNCHANGED <<gpuVars, selVars, twinVars, valVars, loop2Vars, timeVars, mlVars>>
  \/ \E t \in TaskIds : SubmitPush(t) /\ UNCHANGED <<gpuVars, selVars, twinVars, valVars, loop2Vars, timeVars, mlVars>>
  \/ \E t \in TaskIds : SubmitCount(t) /\ UNCHANGED <<gpuVars, selVars, twinVars, valVars, loop2Vars, timeVars, mlVars>>
  \/ \E t \in TaskIds : SubmitReturn(t) /\ UNCHANGED <<gpuVars, selVars, twinVars, valVars, loop2Vars, timeVars, mlVars>>
  \/ RunLock /\ UNCHANGED <<gpuVars, selVars, twinVars, valVars, loop2Vars, timeVars, mlVars>>
  \/ RunPop /\ UNCHANGED <<gpuVars, selVars, twinVars, valVars, loop2Vars, timeVars, mlVars>>
  \/ RunSleep /\ UNCHANGED <<gpuVars, selVars, twinVars, valVars, loop2Vars, timeVars, mlVars>>
  \/ ProcAcquire /\ UNCHANGED <<gpuVars, selVars, twinVars, valVars, loop2Vars, timeVars, mlVars>>
  \/ ProcLoad /\ UNCHANGED <<gpuVars, selVars, twinVars, valVars, loop2Vars, timeVars>>
  \/ ProcLoadPath /\ UNCHANGED <<gpuVars, selVars, twinVars, valVars, loop2Vars, timeVars>>
  \/ ProcLoadMetadata /\ UNCHANGED <<gpuVars, selVars, twinVars, valVars, loop2Vars, timeVars>>
  \/ ProcLoadModule /\ UNCHANGED <<gpuVars, selVars, twinVars, valVars, loop2Vars, timeVars>>
  \/ ProcLoadInsert /\ UNCHANGED <<gpuVars, selVars, twinVars, valVars, loop2Vars, timeVars>>
  \/ ProcExecute /\ UNCHANGED <<gpuVars, selVars, twinVars, valVars, loop2Vars, timeVars, mlVars>>
  \/ ProcRelease /\ UNCHANGED <<gpuVars, selVars, twinVars, valVars, loop2Vars, timeVars, mlVars>>

Spec == Init /\ [][Next]_vars

\* the tasks submitted where only the progress of the run loop is at
\* stake: the loop reads neither the priority nor, for its progress, the
\* max_duration
FairTasks ==
  { task \in SubmittedTasks : task.priority = 1 /\ task.max_duration = 1 }

FairNext ==
  \/ \E t \in TaskIds :
       /\ SubmitLock(t)
       /\ submitArg'[t] \in FairTasks
       /\ UNCHANGED <<gpuVars, selVars, twinVars, valVars, loop2Vars, timeVars, mlVars>>
  \/ \E t \in TaskIds : SubmitPush(t) /\ UNCHANGED <<gpuVars, selVars, twinVars, valVars, loop2Vars, timeVars, mlVars>>
  \/ \E t \in TaskIds : SubmitCount(t) /\ UNCHANGED <<gpuVars, selVars, twinVars, valVars, loop2Vars, timeVars, mlVars>>
  \/ \E t \in TaskIds : SubmitReturn(t) /\ UNCHANGED <<gpuVars, selVars, twinVars, valVars, loop2Vars, timeVars, mlVars>>
  \/ RunLock /\ UNCHANGED <<gpuVars, selVars, twinVars, valVars, loop2Vars, timeVars, mlVars>>
  \/ RunPop /\ UNCHANGED <<gpuVars, selVars, twinVars, valVars, loop2Vars, timeVars, mlVars>>
  \/ RunSleep /\ UNCHANGED <<gpuVars, selVars, twinVars, valVars, loop2Vars, timeVars, mlVars>>
  \/ ProcAcquire /\ UNCHANGED <<gpuVars, selVars, twinVars, valVars, loop2Vars, timeVars, mlVars>>
  \/ ProcLoad /\ UNCHANGED <<gpuVars, selVars, twinVars, valVars, loop2Vars, timeVars>>
  \/ ProcLoadPath /\ UNCHANGED <<gpuVars, selVars, twinVars, valVars, loop2Vars, timeVars>>
  \/ ProcLoadMetadata /\ UNCHANGED <<gpuVars, selVars, twinVars, valVars, loop2Vars, timeVars>>
  \/ ProcLoadModule /\ UNCHANGED <<gpuVars, selVars, twinVars, valVars, loop2Vars, timeVars>>
  \/ ProcLoadInsert /\ UNCHANGED <<gpuVars, selVars, twinVars, valVars, loop2Vars, timeVars>>
  \/ ProcExecute /\ UNCHANGED <<gpuVars, selVars, twinVars, valVars, loop2Vars, timeVars, mlVars>>
  \/ ProcRelease /\ UNCHANGED <<gpuVars, selVars, twinVars, valVars, loop2Vars, timeVars, mlVars>>

\* the run loop is a spawned task that is always scheduled again, the calls
\* it awaits return, and a submit_task call that holds the lock runs to its end
FairSpec ==
  /\ Init
  /\ [][FairNext]_vars
  /\ WF_vars(\/ RunNext /\ UNCHANGED <<gpuVars, selVars, twinVars, valVars, loop2Vars, timeVars, mlVars>>
             \/ ProcLoadNext /\ UNCHANGED <<gpuVars, selVars, twinVars, valVars, loop2Vars, timeVars>>)
  /\ \A t \in TaskIds : WF_vars(SubmitNext(t) /\ UNCHANGED <<gpuVars, selVars, twinVars, valVars, loop2Vars, timeVars, mlVars>>)

PrioNext ==
  \/ \E t \in TaskIds :
       SubmitLock(t) /\ TwinSubmitLock(t) /\ UNCHANGED <<gpuVars, selVars, valVars, loop2Vars, timeVars, mlVars>>
  \/ \E t \in TaskIds :
       SubmitPush(t) /\ TwinSubmitPush(t) /\ UNCHANGED <<gpuVars, selVars, valVars, loop2Vars, timeVars, mlVars>>
  \/ \E t \in TaskIds :
       SubmitCount(t) /\ TwinSubmitCount(t) /\ UNCHANGED <<gpuVars, selVars, valVars, loop2Vars, timeVars, mlVars>>
  \/ \E t \in TaskIds :
       SubmitReturn(t) /\ UNCHANGED <<gpuVars, selVars, twinVars, valVars, loop2Vars, timeVars, mlVars>>
  \/ RunLock /\ UNCHANGED <<gpuVars, selVars, twinVars, valVars, loop2Vars, timeVars, mlVars>>
  \/ RunPop /\ TwinRunPop /\ UNCHANGED <<gpuVars, selVars, valVars, loop2Vars, timeVars, mlVars>>
  \/ RunSleep /\ UNCHANGED <<gpuVars, selVars, twinVars, valVars, loop2Vars, timeVars, mlVars>>
  \/ ProcAcquire /\ TwinProcAcquire /\ UNCHANGED <<gpuVars, selVars, valVars, loop2Vars, timeVars, mlVars>>
  \/ ProcLoadNext /\ TwinProcLoad /\ UNCHANGED <<gpuVars, selVars, valVars, loop2Vars, timeVars>>
  \/ ProcExecute /\ TwinProcExecute /\ UNCHANGED <<gpuVars, selVars, valVars, loop2Vars, timeVars, mlVars>>
  \/ ProcRelease /\ TwinProcRelease /\ UNCHANGED <<gpuVars, selVars, valVars, loop2Vars, timeVars, mlVars>>

\* both schedulers run side by side
PrioSpec == Init /\ [][PrioNext]_vars

GpuSpecInit ==
  SchedIdle /\ GpuInit /\ SelIdle /\ TwinInit /\ ValIdle /\ Loop2Init /\ TimeIdle
  /\ MlIdle

GpuNext ==
  \/ GNew /\ UNCHANGED <<schedVars, selVars, twinVars, valVars, loop2Vars, timeVars, mlVars>>
  \/ \E t \in TaskIds : GSubmit(t) /\ UNCHANGED <<schedVars, selVars, twinVars, valVars, loop2Vars, timeVars, mlVars>>
  \/ GRecv /\ UNCHANGED <<schedVars, selVars, twinVars, valVars, loop2Vars, timeVars, mlVars>>
  \/ GSelectLock /\ UNCHANGED <<schedVars, selVars, twinVars, valVars, loop2Vars, timeVars, mlVars>>
  \/ GSelect /\ UNCHANGED <<schedVars, selVars, twinVars, valVars, loop2Vars, timeVars, mlVars>>
  \/ GStatsLock /\ UNCHANGED <<schedVars, selVars, twinVars, valVars, loop2Vars, timeVars, mlVars>>
  \/ GStats /\ UNCHANGED <<schedVars, selVars, twinVars, valVars, loop2Vars, timeVars, mlVars>>
  \/ GExecute /\ UNCHANGED <<schedVars, selVars, twinVars, valVars, loop2Vars, timeVars, mlVars>>

GpuSpec == GpuSpecInit /\ [][GpuNext]_vars

\* process_task_queue is a spawned task that is always scheduled again; a
\* get_gpu_stats call that holds the lock runs to its end, and a lock() that
\* waits gets the mutex once it has been released often enough
GpuFairSpec ==
  /\ GpuSpec
  /\ WF_vars((GNew \/ GRecv \/ GSelect \/ GExecute)
               /\ UNCHANGED <<schedVars, selVars, twinVars, valVars, loop2Vars, timeVars, mlVars>>)
  /\ WF_vars(GStats /\ UNCHANGED <<schedVars, selVars, twinVars, valVars, loop2Vars, timeVars, mlVars>>)
  /\ SF_vars(GSelectLock /\ UNCHANGED <<schedVars, selVars, twinVars, valVars, loop2Vars, timeVars, mlVars>>)

SelSpecInit ==
  SchedIdle /\ GpuIdle /\ SelInit /\ TwinInit /\ ValIdle /\ Loop2Init /\ TimeIdle
  /\ MlIdle

SelNext == SelApply /\ UNCHANGED <<schedVars, gpuVars, twinVars, valVars, loop2Vars, timeVars, mlVars>>

SelSpec == SelSpecInit /\ [][SelNext]_vars

ValSpecInit ==
  SchedIdle /\ GpuIdle /\ SelIdle /\ TwinInit /\ ValInit /\ Loop2Init /\ TimeIdle
  /\ MlIdle

ValNext ==
  \/ VFormat /\ UNCHANGED <<schedVars, gpuVars, selVars, twinVars, loop2Vars, timeVars, mlVars>>
  \/ VConsensus /\ UNCHANGED <<schedVars, gpuVars, selVars, twinVars, loop2Vars, timeVars, mlVars>>
  \/ VStore /\ UNCHANGED <<schedVars, gpuVars, selVars, twinVars, loop2Vars, timeVars, mlVars>>

\* one validate_data call on any item
ValSpec == ValSpecInit /\ [][ValNext]_vars

\* the error paths of the two submit_task functions.  A behaviour exercises
\* one component: the TaskScheduler with a metrics call that can panic under
\* the queue guard, or the GPUManager with an execute_task that can panic
ErrSpecInit ==
  SchedInit /\ GpuInit /\ SelIdle /\ TwinInit /\ ValIdle /\ Loop2Init /\ TimeIdle
  /\ MlIdle

ErrSchedNext ==
  \/ \E t \in TaskIds : SubmitLock(t)
  \/ \E t \in TaskIds : SubmitLockError(t)
  \/ \E t \in TaskIds : SubmitPush(t)
  \/ \E t \in TaskIds : SubmitCount(t)
  \/ \E t \in TaskIds : SubmitPanics(t)
  \/ \E t \in TaskIds : SubmitReturn(t)
  \/ RunLock
  \/ RunLockPanics
  \/ RunPop
  \/ RunSleep
  \/ ProcAcquire
  \/ ProcExecute
  \/ ProcRelease

ErrGpuNext ==
  \/ GNew
  \/ \E t \in TaskIds : GSubmit(t)
  \/ \E t \in TaskIds : GSubmitError(t)
  \/ GRecv
  \/ GSelectLock
  \/ GSelect
  \/ GExecute
  \/ GQueueTaskPanics

ErrNext ==
  \/ GpuIdle /\ ErrSchedNext /\ UNCHANGED <<gpuVars, selVars, twinVars, valVars, loop2Vars, timeVars, mlVars>>
  \/ GpuIdle /\ ProcLoadNext /\ UNCHANGED <<gpuVars, selVars, twinVars, valVars, loop2Vars, timeVars>>
  \/ SchedIdle /\ ErrGpuNext /\ UNCHANGED <<schedVars, selVars, twinVars, valVars, loop2Vars, timeVars, mlVars>>

ErrSpec == ErrSpecInit /\ [][ErrNext]_vars

\* one TaskScheduler with two run loops polling its queue
TwoLoopInit == SchedInit /\ GpuIdle /\ SelIdle /\ TwinInit /\ ValIdle /\ Loop2Init /\ TimeIdle
  /\ MlIdle

\* the callers that submit while two loops poll: one task for each loop,
\* the first and the last id, with any model, priority and max_duration
TwoLoopCallers == {1, MaxTasks}

TwoLoopNext ==
  \/ \E t \in TwoLoopCallers : SubmitLock(t) /\ UNCHANGED <<gpuVars, selVars, twinVars, valVars, loop2Vars, timeVars, mlVars>>
  \/ \E t \in TaskIds : SubmitPush(t) /\ UNCHANGED <<gpuVars, selVars, twinVars, valVars, loop2Vars, timeVars, mlVars>>
  \/ \E t \in TaskIds : SubmitCount(t) /\ UNCHANGED <<gpuVars, selVars, twinVars, valVars, loop2Vars, timeVars, mlVars>>
  \/ \E t \in TaskIds : SubmitReturn(t) /\ UNCHANGED <<gpuVars, selVars, twinVars, valVars, loop2Vars, timeVars, mlVars>>
  \/ RunLock /\ UNCHANGED <<gpuVars, selVars, twinVars, valVars, loop2Vars, timeVars, mlVars>>
  \/ RunPop /\ UNCHANGED <<gpuVars, selVars, twinVars, valVars, loop2Vars, timeVars, mlVars>>
  \/ RunSleep /\ UNCHANGED <<gpuVars, selVars, twinVars, valVars, loop2Vars, timeVars, mlVars>>
  \/ ProcAcquire /\ UNCHANGED <<gpuVars, selVars, twinVars, valVars, loop2Vars, timeVars, mlVars>>
  \/ ProcLoad /\ UNCHANGED <<gpuVars, selVars, twinVars, valVars, loop2Vars, timeVars>>
  \/ ProcLoadPath /\ UNCHANGED <<gpuVars, selVars, twinVars, valVars, loop2Vars, timeVars>>
  \/ ProcLoadMetadata /\ UNCHANGED <<gpuVars, selVars, twinVars, valVars, loop2Vars, timeVars>>
  \/ ProcLoadModule /\ UNCHANGED <<gpuVars, selVars, twinVars, valVars, loop2Vars, timeVars>>
  \/ ProcLoadInsert /\ UNCHANGED <<gpuVars, selVars, twinVars, valVars, loop2Vars, timeVars>>
  \/ ProcExecuteHanded /\ UNCHANGED <<gpuVars, selVars, twinVars, valVars, timeVars, mlVars>>
  \/ ProcRelease /\ UNCHANGED <<gpuVars, selVars, twinVars, valVars, loop2Vars, timeVars, mlVars>>
  \/ Run2Lock /\ UNCHANGED <<gpuVars, selVars, twinVars, valVars, timeVars, mlVars>>
  \/ Run2Pop /\ UNCHANGED <<gpuVars, selVars, twinVars, valVars, timeVars, mlVars>>
  \/ Run2Sleep /\ UNCHANGED <<gpuVars, selVars, twinVars, valVars, timeVars, mlVars>>
  \/ Proc2Acquire /\ UNCHANGED <<gpuVars, selVars, twinVars, valVars, timeVars, mlVars>>
  \/ Proc2Load /\ UNCHANGED <<gpuVars, selVars, twinVars, valVars, timeVars>>
  \/ Proc2LoadPath /\ UNCHANGED <<gpuVars, selVars, twinVars, valVars, timeVars>>
  \/ Proc2LoadMetadata /\ UNCHANGED <<gpuVars, selVars, twinVars, valVars, timeVars>>
  \/ Proc2LoadModule /\ UNCHANGED <<gpuVars, selVars, twinVars, valVars, timeVars>>
  \/ Proc2LoadInsert /\ UNCHANGED <<gpuVars, selVars, twinVars, valVars, timeVars>>
  \/ Proc2Execute /\ UNCHANGED <<gpuVars, selVars, twinVars, valVars, timeVars, mlVars>>
  \/ Proc2Release /\ UNCHANGED <<gpuVars, selVars, twinVars, valVars, timeVars, mlVars>>

TwoLoopSpec == TwoLoopInit /\ [][TwoLoopNext]_vars

\* the TaskScheduler with the clock that shows how long process_task has
\* held its gpu
TimedInit == Init

TimedNext ==
  \/ \E t \in TaskIds : SubmitLock(t) /\ UNCHANGED <<gpuVars, selVars, twinVars, valVars, loop2Vars, timeVars, mlVars>>
  \/ \E t \in TaskIds : SubmitPush(t) /\ UNCHANGED <<gpuVars, selVars, twinVars, valVars, loop2Vars, timeVars, mlVars>>
  \/ \E t \in TaskIds : SubmitCount(t) /\ UNCHANGED <<gpuVars, selVars, twinVars, valVars, loop2Vars, timeVars, mlVars>>
  \/ \E t \in TaskIds : SubmitReturn(t) /\ UNCHANGED <<gpuVars, selVars, twinVars, valVars, loop2Vars, timeVars, mlVars>>
  \/ RunLock /\ UNCHANGED <<gpuVars, selVars, twinVars, valVars, loop2Vars, timeVars, mlVars>>
  \/ RunPop /\ UNCHANGED <<gpuVars, selVars, twinVars, valVars, loop2Vars, timeVars, mlVars>>
  \/ RunSleep /\ UNCHANGED <<gpuVars, selVars, twinVars, valVars, loop2Vars, timeVars, mlVars>>
  \/ TimedAcquire /\ UNCHANGED <<gpuVars, selVars, twinVars, valVars, loop2Vars, mlVars>>
  \/ TimedLoad /\ UNCHANGED <<gpuVars, selVars, twinVars, valVars, loop2Vars>>
  \/ TimedExecute /\ UNCHANGED <<gpuVars, selVars, twinVars, valVars, loop2Vars, mlVars>>
  \/ TimedRelease /\ UNCHANGED <<gpuVars, selVars, twinVars, valVars, loop2Vars, mlVars>>

TimedSpec == TimedInit /\ [][TimedNext]_vars

\* one ModelLoader called by concurrent tasks
MlSpecInit ==
  SchedIdle /\ GpuIdle /\ SelIdle /\ TwinInit /\ ValIdle /\ Loop2Init
  /\ TimeIdle /\ MlInit

MlNext ==
  \/ \E c \in LoaderCallers, m \in ModelIds : LoadCheck(c, m) /\ UNCHANGED <<schedVars, gpuVars, selVars, twinVars, valVars, loop2Vars, timeVars>>
  \/ \E c \in LoaderCallers : LoadPath(c) /\ UNCHANGED <<schedVars, gpuVars, selVars, twinVars, valVars, loop2Vars, timeVars>>
  \/ \E c \in LoaderCallers : LoadMetadata(c) /\ UNCHANGED <<schedVars, gpuVars, selVars, twinVars, valVars, loop2Vars, timeVars>>
  \/ \E c \in LoaderCallers : LoadModule(c) /\ UNCHANGED <<schedVars, gpuVars, selVars, twinVars, valVars, loop2Vars, timeVars>>
  \/ \E c \in LoaderCallers : LoadInsert(c) /\ UNCHANGED <<schedVars, gpuVars, selVars, twinVars, valVars, loop2Vars, timeVars>>
  \/ \E c \in LoaderCallers, m \in ModelIds : UnloadModel(c, m) /\ UNCHANGED <<schedVars, gpuVars, selVars, twinVars, valVars, loop2Vars, timeVars>>
  \/ \E c \in LoaderCallers, m \in ModelIds : GetModelMetadata(c, m) /\ UNCHANGED <<schedVars, gpuVars, selVars, twinVars, valVars, loop2Vars, timeVars>>

MlSpec == MlSpecInit /\ [][MlNext]_vars

\* ------------------------------------------------------------------ claims

Range(s) == { s[i] : i \in 1..Len(s) }
Occurrences(s, x) == Cardinality({ i \in 1..Len(s) : s[i] = x })
QueueIds == [i \in 1..Len(queue) |-> queue[i].id]
Resolved(t) == outcome[t] \in {"Completed", "Failed"}

\* C1: the run loop pops tasks in exactly the order in which their
\* push_back completed, whatever their priority and max_duration: the pop
\* history is always a prefix of the append history.
C1_DispatchOrderIsSubmissionOrder ==
  /\ Len(dispatched) <= Len(appended)
  /\ \A i \in 1..Len(dispatched) : dispatched[i] = appended[i]
  /\ QueueIds = SubSeq(appended, Len(dispatched) + 1, Len(appended))

\* a task was popped while a task submitted after it, with a smaller id, a
\* higher priority and a shorter max_duration, is still waiting
C1_Witness ==
  /\ dispatched # <<>>
  /\ cur # NoTask
  /\ queue # <<>>
  /\ cur.id > Head(queue).id
  /\ cur.priority < Head(queue).priority
  /\ cur.max_duration > Head(queue).max_duration

\* C2: every task the run loop popped ends with exactly one outcome record
\* (the completion log or the error log): never two, exactly one as soon as
\* process_task has returned, and eventually one on every path.
C2_EveryDequeuedTaskResolvedOnce ==
  /\ [](\A t \in TaskIds :
          /\ records[t] <= 1
          /\ (records[t] = 1) = Resolved(t)
          /\ (t \in Range(dispatched) /\ cur.id # t => records[t] = 1)
          /\ (t \notin Range(dispatched) => records[t] = 0))
  /\ \A t \in TaskIds : (t \in Range(dispatched)) ~> (records[t] = 1)

\* one task failed after its gpu was acquired and another one completed
C2_Witness ==
  \E t, u \in TaskIds :
    /\ failure[t] \in {"ModelLoadError", "ExecutionError", "ReleaseError"}
    /\ records[t] = 1
    /\ outcome[u] = "Completed"
    /\ records[u] = 1

\* C3: a task for which no device was available is put back on the queue:
\* it is still pending or in progress.
C3_NoDeviceRequeues ==
  \A t \in TaskIds :
    failure[t] = "NoDeviceAvailable" => (t \in Range(QueueIds) \/ cur.id = t)

\* C4: once no task is in progress every gpu's load is back at its initial
\* value, whether the tasks succeeded or failed.
C4_DeviceReleasedOnEveryPath ==
  cur = NoTask => \A g \in Gpus : load[g] = 0

\* C5: the number of pending tasks never exceeds the configured capacity.
C5_QueueBounded ==
  Len(queue) <= max_concurrent_tasks

\* C6: with no pop so far and no submit_task call holding the queue,
\* get_queue_length is the number of calls that returned Ok and the queue
\* holds each of their tasks exactly once.
C6_ConcurrentSubmitsAllQueued ==
  (dispatched = <<>> /\ queueLock = Free) =>
    /\ GetQueueLength = Cardinality({ t \in TaskIds : submitPc[t] = "done" })
    /\ \A t \in TaskIds :
         Occurrences(QueueIds, t) = (IF submitPc[t] = "done" THEN 1 ELSE 0)

\* every call returned Ok, nothing was popped, and the calls did not append
\* in the order of their ids
C6_Witness ==
  /\ \A t \in TaskIds : submitPc[t] = "done"
  /\ dispatched = <<>>
  /\ queueLock = Free
  /\ appended[1] # 1
  /\ GetQueueLength = MaxTasks

\* C7: under a fairly scheduled run loop and terminating collaborators, every
\* task whose submit_task returned Ok is eventually popped and eventually
\* ends Completed or Failed.
C7_NoSubmittedTaskLost ==
  \A t \in TaskIds :
    (submitPc[t] = "done") ~> (t \in Range(dispatched) /\ Resolved(t))

\* every task was submitted and resolved, one Completed and one Failed
C7_Witness ==
  /\ \A t \in TaskIds : submitPc[t] = "done" /\ Resolved(t)
  /\ \E t \in TaskIds : outcome[t] = "Completed"
  /\ \E t \in TaskIds : outcome[t] = "Failed"

\* the same for GPUManager: a task whose send returned is eventually received
\* and executed
GpuNoSentTaskLost ==
  \A t \in TaskIds :
    (sendPc[t] = "done") ~> (gOutcome[t] \in {"Completed", "Failed"})

\* C8: the selection is the device with the minimum load, the first such
\* device in registry order, and None exactly on an empty registry.
C8_SelectsFirstLeastLoaded ==
  selDone =>
    /\ (selOut = NoDevice) = (selIn = <<>>)
    /\ selIn # <<>> =>
         \E i \in 1..Len(selIn) :
           /\ selOut = selIn[i]
           /\ \A j \in 1..Len(selIn) : selIn[j].load >= selIn[i].load
           /\ \A j \in 1..(i - 1) : selIn[j].load > selIn[i].load

\* a selection among devices that tie on the minimum load, and a selection
\* whose minimum is not the first device
C8_Witness ==
  /\ selDone
  /\ Len(selIn) >= 2
  /\ selIn[1].load = selIn[2].load
  /\ selOut.id = 1

C8_WitnessLater ==
  /\ selDone
  /\ Len(selIn) >= 2
  /\ selIn[1].load > selIn[2].load
  /\ selOut.id = 2

\* C9: a successful selection leaves the chosen device's load in the
\* registry one higher than before and every other load unchanged.
C9_SelectionIncrementsLoad ==
  gmPc = "execute" =>
    /\ Len(devices) = Len(gPreDevices)
    /\ \A i \in 1..Len(devices) :
         devices[i].load =
           (IF devices[i].id = gSel.id THEN gPreDevices[i].load + 1
            ELSE gPreDevices[i].load)

\* C10: initialization retains exactly the enumerated devices whose memory
\* is at least min_memory, in enumeration order; it succeeds iff one is
\* retained, and then the device statistics are not empty.
C10_InitializeRetainsByMemory ==
  initResult # "pending" =>
    /\ enumerate_ok =>
         /\ \A i \in 1..Len(enumerated) :
              (enumerated[i].memory >= min_memory)
                = (enumerated[i] \in Range(devices))
         /\ Range(devices) \subseteq Range(enumerated)
         /\ \A j, k \in 1..Len(devices) : j < k => devices[j].id < devices[k].id
    /\ (initResult = "Ok")
         = (enumerate_ok /\ \E i \in 1..Len(enumerated) :
                              enumerated[i].memory >= min_memory)
    /\ (initResult = "Ok") = (devices # <<>>)
    /\ initResult = "Ok" =>
         \A used \in UsedSnapshots(devices) :
           Len(GetGpuStats(devices, used)) > 0

\* a successful initialization that kept a device whose memory equals the
\* threshold and dropped a smaller one
C10_Witness ==
  /\ initResult = "Ok"
  /\ Len(devices) < Len(enumerated)
  /\ \E i \in 1..Len(devices) : devices[i].memory = min_memory

\* a failed initialization although devices were enumerated
C10_WitnessFail ==
  /\ initResult = "Err"
  /\ enumerate_ok
  /\ enumerated # <<>>

C12_OverdueTaskStillCompletes ==
  [][ /\ IF runPc = "execute" /\ runPc' = "release"
         THEN /\ overdue_tasks' = overdue_tasks +
                   (IF measured' > cur.max_duration THEN 1 ELSE 0)
              /\ cur' = cur
              /\ gpu' = gpu
         ELSE overdue_tasks' = overdue_tasks
      /\ (runPc = "release" /\ runPc' # "release") =>
           /\ outcome'[cur.id] = "Completed"
           /\ load'[gpu] = load[gpu] - 1 ]_vars

\* C13: while no task is in progress, completed + failed is the number of
\* tasks popped so far and overdue is at most completed.
C13_OutcomeCountersTrackDequeues ==
  cur = NoTask =>
    /\ completed_tasks + failed_tasks = Len(dispatched)
    /\ overdue_tasks <= completed_tasks

\* C14: the queued counter never decreases, it counts the submit_task calls
\* that reached increment_queued_tasks, and whenever the queue lock is free
\* it is the queue length plus the number of tasks popped so far.
C14_QueuedCounterCountsSubmits ==
  /\ [](queued_tasks =
          Cardinality({ t \in TaskIds : submitPc[t] \in {"counted", "done"} }))
  /\ [](queueLock = Free => queued_tasks = Len(queue) + Len(dispatched))
  /\ [][queued_tasks' >= queued_tasks]_vars

\* the lock is free, one task was popped and another one waits
C14_Witness ==
  /\ queueLock = Free
  /\ queue # <<>>
  /\ dispatched # <<>>
  /\ queued_tasks = 2

\* C15: once a task's processing has failed, every task whose submit_task
\* returned, before or after the failure, is still eventually popped and
\* resolved.
C15_FailureDoesNotStopDispatch ==
  \A u \in TaskIds :
    ((\E t \in TaskIds : outcome[t] = "Failed") /\ submitPc[u] = "done")
      ~> (u \in Range(dispatched) /\ Resolved(u))

\* a task failed and the task popped after it completed
C15_Witness ==
  \E t \in TaskIds : \E u \in TaskIds :
    /\ dispatched = <<t, u>>
    /\ outcome[t] = "Failed"
    /\ outcome[u] = "Completed"

\* C16: while a task executes and another one waits in the unlocked queue,
\* the run loop can take its next pop.
C16_LoopPopsWhileExecuting ==
  (runPc = "execute" /\ queue # <<>> /\ queueLock = Free) => ENABLED RunLock

\* C17: a second scheduler that gets the same calls in the same order, with
\* any other priorities, always has the same pop history, pending ids, task
\* in progress, loaded models, gpu and loads, outcomes and counters as the
\* first one.
C17_PriorityIsInformational ==
  /\ twDispatched = dispatched
  /\ [i \in 1..Len(twQueue) |-> twQueue[i].id] = QueueIds
  /\ twCur.id = cur.id
  /\ twCur.max_duration = cur.max_duration
  /\ twCur.model_id = cur.model_id
  /\ twLoadedModels = loaded_models
  /\ twGpu = gpu
  /\ twLoad = load
  /\ twOutcome = outcome
  /\ twQueued = queued_tasks
  /\ twSamples = execution_samples
  /\ twOverdue = overdue_tasks

\* the first scheduler popped the task of lower priority, the second one the
\* task of higher priority, and both hold the same task on the same gpu
C17_Witness ==
  /\ runPc = "execute"
  /\ Len(queue) = 1
  /\ cur.priority < queue[1].priority
  /\ twCur.priority > twQueue[1].priority
  /\ gpu # 0

\* C18: the pop step takes exactly the head of a non-empty queue and leaves
\* the rest in order; on an empty queue it returns None and leaves the queue
\* as it is; the step is always enabled once the lock is held.
C18_DequeueIsNonBlockingPoll ==
  /\ [](runPc = "popping" => (queueLock = Dispatcher /\ ENABLED RunPop))
  /\ [][ (runPc = "popping" /\ runPc' # "popping") =>
           IF queue # <<>>
           THEN /\ cur' = Head(queue)
                /\ queue' = Tail(queue)
                /\ Len(queue') = Len(queue) - 1
                /\ runPc' = "acquire"
           ELSE /\ cur' = NoTask
                /\ queue' = queue
                /\ runPc' = "sleep" ]_vars

\* the head was popped and another task is still queued
C18_Witness ==
  /\ runPc = "acquire"
  /\ cur # NoTask
  /\ queue # <<>>
  /\ dispatched = <<cur.id>>

\* C19: a pop that finds the queue empty leads to the sleep and to nothing
\* else; from the empty pop until the next lock no task, gpu, load, metric
\* or outcome changes; the next pop attempt is only entered through the end
\* of the sleep and the lock.
C19_EmptyPollSleepsWithoutWork ==
  [][ /\ (runPc = "popping" /\ queue = <<>> /\ runPc' # "popping") =>
           runPc' = "sleep"
      /\ (runPc = "sleep" /\ runPc' # "sleep") => runPc' = "poll"
      /\ (runPc = "poll" /\ runPc' # "poll") => runPc' = "popping"
      /\ (runPc' = "poll" /\ runPc # "poll") =>
           runPc \in {"sleep", "acquire", "load", "execute", "release"}
      /\ ((runPc = "popping" /\ queue = <<>>) \/ runPc = "sleep") =>
           UNCHANGED <<cur, gpu, load, execution_samples, overdue_tasks,
                       completed_tasks, failed_tasks, measured, dispatched,
                       outcome, failure, records>> ]_vars

\* the loop sleeps although a task has arrived meanwhile
C19_Witness ==
  /\ runPc = "sleep"
  /\ cur = NoTask
  /\ queue # <<>>
  /\ dispatched = <<>>

\* C20: process_task_queue holds the devices lock only inside
\* select_available_device, never while a task executes, so the lock can be
\* taken by get_gpu_stats during an execution.
C20_DeviceLockOnlyForSelection ==
  /\ (devLock = "queue") = (gmPc = "selecting")
  /\ gmPc = "execute" => devLock # "queue"
  /\ (gmPc = "execute" /\ statsPc = "idle") => devLock = "free"

\* get_gpu_stats holds the devices lock while a task executes
C20_Witness ==
  /\ gmPc = "execute"
  /\ gCur # 0
  /\ devLock = "stats"
  /\ statsPc = "locked"

\* C22: when initialize_devices fails (enumeration failed, or no enumerated
\* device has at least min_memory), GPUManager::new returns Err, the queue
\* task is never spawned, and no task is ever sent, received or executed and
\* no statistics are read; new fails in exactly these cases.
C22_StartupFailureAborts ==
  /\ (initResult = "Err") =
       (gmPc # "new" /\
          (~enumerate_ok \/
             \A i \in 1..Len(enumerated) : enumerated[i].memory < min_memory))
  /\ initResult = "Err" =>
       /\ gmPc = "failed"
       /\ devices = <<>>
       /\ channel = <<>>
       /\ gCur = 0
       /\ gSel = NoDevice
       /\ \A t \in TaskIds : sendPc[t] = "idle" /\ gOutcome[t] = "none"
       /\ statsPc = "idle"
       /\ stats = NoStats
       /\ \A t \in TaskIds : ~ENABLED GSubmit(t)
       /\ ~ENABLED GRecv

\* devices were enumerated, none of them was large enough, new returned Err
C22_Witness ==
  /\ initResult = "Err"
  /\ enumerate_ok
  /\ Len(enumerated) = 2
  /\ gmPc = "failed"

\* C23: once new has returned Ok, no step changes which devices the registry
\* holds or their order, and the registry is never empty.
C23_RegistryIsStable ==
  /\ [](initResult = "Ok" => devices # <<>>)
  /\ [][initResult = "Ok" =>
          [i \in 1..Len(devices') |-> devices'[i].id]
            = [i \in 1..Len(devices) |-> devices[i].id]]_vars

\* two devices are registered, a task failed on one, a task completed, and
\* the statistics were read
C23_Witness ==
  /\ initResult = "Ok"
  /\ Len(devices) = 2
  /\ \E t \in TaskIds : gOutcome[t] = "Failed"
  /\ \E t \in TaskIds : gOutcome[t] = "Completed"
  /\ stats.returned

\* C24: a task is in execution only while a gpu is held for it; a task that
\* has ended Completed or Failed keeps that outcome; the run loop moves a
\* task from the pop to acquire, load, execute, release in this order; and
\* every overdue increment belongs to a task that ends Completed (or is
\* still about to be released).
C24_TaskLifecycle ==
  /\ [](runPc = "execute" => (cur # NoTask /\ gpu # 0 /\ load[gpu] >= 1))
  /\ [](overdue_tasks <=
          Cardinality({ t \in TaskIds : outcome[t] = "Completed" })
            + (IF runPc = "release" THEN 1 ELSE 0))
  /\ [][ /\ \A t \in TaskIds : Resolved(t) => outcome'[t] = outcome[t]
         /\ (runPc' = "acquire" /\ runPc # "acquire") => runPc = "popping"
         /\ (runPc' = "load" /\ runPc # "load") => runPc = "acquire"
         /\ (runPc' = "execute" /\ runPc # "execute") => runPc = "load"
         /\ (runPc' = "release" /\ runPc # "release") => runPc = "execute"
         /\ \A t \in TaskIds :
              (~Resolved(t) /\ outcome'[t] = "Completed") => runPc = "release"
       ]_vars

\* C25: while no task is in progress, the number of execution-time samples
\* is the number of popped tasks whose processing has finished.
C25_OneSamplePerFinishedTask ==
  cur = NoTask =>
    execution_samples = Cardinality({ t \in TaskIds : Resolved(t) })

\* C29: the run loop holds the queue lock exactly while it pops; a
\* submit_task call that has not started can take the lock whenever no pop
\* and no other submit_task holds it, whatever the queue length and whatever
\* the run loop is processing, and a call that holds the lock runs on to its
\* return.
C29_SubmitWaitsOnlyForThePop ==
  /\ (queueLock = Dispatcher) = (runPc = "popping")
  /\ \A t \in TaskIds :
       /\ (submitPc[t] = "idle" /\ ~ENABLED SubmitLock(t)) =>
            \/ queueLock = Dispatcher
            \/ \E u \in TaskIds \ {t} :
                 queueLock = u /\ submitPc[u] \in {"locked", "pushed", "counted"}
       /\ submitPc[t] \in {"locked", "pushed", "counted"} =>
            (queueLock = t /\ ENABLED SubmitNext(t))

\* a submit_task call holds the lock and has pushed its task while another
\* task is executing and the queue already holds a task
C29_Witness ==
  \E t \in TaskIds :
    /\ runPc = "execute"
    /\ cur.id # t
    /\ queueLock = t
    /\ submitPc[t] = "pushed"
    /\ Len(queue) >= max_concurrent_tasks

\* C26: when the execution has returned, the execution time that was
\* recorded and compared is the time passed since the device was acquired,
\* model loading included.
C26_MeasuredFromSelection ==
  runPc = "release" => measured = clock

\* C27: validate_data checks the format, then asks for consensus, then
\* stores: an item of invalid format returns InvalidFormat with no consensus
\* call and no store call; a consensus error returns ConsensusFailure with no
\* store call; the store is called only after a valid format and a
\* successful consensus, and consensus is asked only for a valid format.
C27_ValidationStopsAtFirstFailure ==
  /\ ~IsValidFormat(vData) =>
       /\ vConsensusCalls = 0
       /\ vStoreCalls = 0
       /\ vStore = <<>>
       /\ vPc = "done" => vReturn.tag = "InvalidFormat"
  /\ vReturn.tag = "InvalidFormat" => ~IsValidFormat(vData)
  /\ vReturn.tag = "ConsensusFailure" =>
       /\ vConsensusCalls = 1
       /\ vStoreCalls = 0
       /\ vStore = <<>>
  /\ vConsensusCalls > 0 => IsValidFormat(vData)
  /\ vStoreCalls > 0 =>
       /\ IsValidFormat(vData)
       /\ vConsensusCalls = 1
       /\ vConsensus # NoValidation
  /\ vStoreCalls <= vConsensusCalls
  /\ vConsensusCalls <= 1

\* a number above 1.0 was rejected before any consensus or store call
C27_Witness ==
  /\ vData.kind = "Numeric"
  /\ vData.size = 11
  /\ vPc = "done"
  /\ vReturn.tag = "InvalidFormat"

\* the consensus failed for a text of the greatest valid length
C27_WitnessConsensus ==
  /\ vData.kind = "Text"
  /\ vData.size = 1000
  /\ vReturn.tag = "ConsensusFailure"

\* C28: validate_data returns Ok exactly when the format was valid, the
\* consensus succeeded and the store write succeeded; then the store holds
\* exactly one entry, under the item's id, with the result consensus
\* produced, and the returned is_valid, confidence and validator_count are
\* those of the consensus; a failed store write returns DatabaseError.
C28_SuccessStoresOnceAndReturnsConsensus ==
  /\ vReturn.tag = "Ok" =>
       /\ IsValidFormat(vData)
       /\ vConsensusCalls = 1
       /\ vStoreCalls = 1
       /\ Len(vStore) = 1
       /\ vStore[1].id = vData.id
       /\ vStore[1].result.is_valid = vConsensus.is_valid
       /\ vStore[1].result.confidence = vConsensus.confidence
       /\ vStore[1].result.validator_count = vConsensus.validator_count
       /\ vReturn.value.is_valid = vConsensus.is_valid
       /\ vReturn.value.confidence = vConsensus.confidence
       /\ vReturn.value.validator_count = vConsensus.validator_count
  /\ (vPc = "done" /\ vStoreCalls = 1) =>
       \/ vReturn.tag = "Ok"
       \/ vReturn.tag = "DatabaseError" /\ vStore = <<>>
  /\ vReturn.tag = "DatabaseError" => vStoreCalls = 1
  /\ Len(vStore) <= 1

\* an image of the greatest valid size was validated by two validators,
\* stored under its id and returned
C28_Witness ==
  /\ vReturn.tag = "Ok"
  /\ vData.kind = "Image"
  /\ vData.size = 10000000
  /\ vData.id = "b"
  /\ vReturn.value.validator_count = 2
  /\ vReturn.value.is_valid
  /\ vStore[1].id = "b"

\* the store write failed after a successful consensus
C28_WitnessDatabaseError ==
  /\ vReturn.tag = "DatabaseError"
  /\ vConsensus # NoValidation

\* C30: a submit_task call that returned Ok has appended its task, at the
\* tail and exactly once; a call that returns an error leaves the queue (the
\* channel) and the queued counter as they were, and its task is in no queue.
C30_SubmitIsAllOrNothing ==
  /\ [](\A t \in TaskIds :
          /\ submitPc[t] = "done" => Occurrences(appended, t) = 1
          /\ submitPc[t] = "failed" => t \notin Range(appended)
          /\ sendPc[t] = "failed" =>
               (t \notin Range(channel) /\ gCur # t /\ gOutcome[t] = "none"))
  /\ [][\A t \in TaskIds :
          /\ (submitPc[t] # "failed" /\ submitPc'[t] = "failed") =>
               /\ queue' = queue
               /\ queued_tasks' = queued_tasks
          /\ (submitPc[t] # "pushed" /\ submitPc'[t] = "pushed") =>
               /\ queue' = queue \o <<submitArg[t]>>
               /\ submitArg[t].id = t
          /\ (submitPc[t] # "done" /\ submitPc'[t] = "done") =>
               /\ queue' = queue
               /\ t \in Range(appended)
          /\ (sendPc[t] # "failed" /\ sendPc'[t] = "failed") =>
               channel' = channel
          /\ (sendPc[t] # "done" /\ sendPc'[t] = "done") =>
               channel' = channel \o <<t>>
     ]_vars

\* the mutex is poisoned, a submit_task call returned the lock error and the
\* queue still holds what it held
C30_Witness ==
  /\ poisoned
  /\ queue # <<>>
  /\ \E t \in TaskIds : submitPc[t] = "failed" /\ t \notin Range(QueueIds)
  /\ queued_tasks = 0

\* the channel is closed and drained, and a send returned the error
C30_WitnessChannel ==
  /\ rxClosed
  /\ channel = <<>>
  /\ \E t \in TaskIds : sendPc[t] = "failed"

\* a task that was still in the channel was dropped with the Receiver
C30_WitnessDrained ==
  /\ rxClosed
  /\ channel = <<>>
  /\ \E t \in TaskIds : sendPc[t] = "done" /\ gOutcome[t] = "Dropped"

\* C21: every task is popped at most once and handed to model.execute at
\* most once, by whichever run loop took it: a task is never in the queue
\* again after its pop, two loops never hold the same task, a task whose
\* processing ended is held by no loop and logged once.
C21_AtMostOnce ==
  \A t \in TaskIds :
    /\ Occurrences(dispatched, t) <= 1
    /\ handed[t] <= 1
    /\ records[t] <= 1
    /\ Occurrences(QueueIds, t) + Occurrences(dispatched, t)
         = Occurrences(appended, t)
    /\ ~(cur.id = t /\ r2Cur.id = t)
    /\ Resolved(t) => (t \notin Range(QueueIds) /\ cur.id # t /\ r2Cur.id # t)
    /\ (cur.id = t \/ r2Cur.id = t) => Occurrences(dispatched, t) = 1

\* one task failed in its execution and was handed over once, while the
\* other loop executes another task
C21_Witness ==
  \E t \in TaskIds, u \in TaskIds :
    /\ t # u
    /\ outcome[t] = "Failed"
    /\ failure[t] = "ExecutionError"
    /\ handed[t] = 1
    /\ handed[u] = 1
    /\ \/ runPc = "release" /\ cur.id = u /\ r2Pc = "poll"
       \/ r2Pc = "release" /\ r2Cur.id = u /\ runPc = "poll"

\* both loops execute at the same time, each its own task
C21_WitnessBothExecute ==
  /\ runPc = "execute"
  /\ r2Pc = "execute"
  /\ cur.id # r2Cur.id

\* both tasks were handed over once and both ran over their max_duration
C21_WitnessOverdue ==
  /\ overdue_tasks = 2
  /\ \A t \in TwoLoopCallers : handed[t] = 1

\* C31: the cache holds an entry for an id exactly from a load_model(id)
\* that returned Ok until the next unload_model(id); get_model_metadata(id)
\* returns Ok exactly then and NotLoaded otherwise; a load_model(id) called
\* while the entry is there returns Ok at once, without a storage call and
\* without a change of the cache; a load_model that returns an error leaves
\* the cache as it was; no call changes the entry of an id other than its
\* own.
C31_CacheTracksLoadsAndUnloads ==
  /\ [](\A m \in ModelIds : loaded_models[m].present = loadedSince[m])
  /\ [][\A c \in LoaderCallers :
          (lActor' = c /\ calls' # calls /\ lOp'[c] = "get") =>
             lRet'[c].tag =
               IF loadedSince[lId'[c]] THEN "Ok" ELSE "NotLoaded"
     ]_vars
  /\ [][\A c \in LoaderCallers :
          (lActor' = c /\ calls' # calls /\ lOp'[c] = "load"
             /\ loadedSince[lId'[c]]) =>
             /\ lRet'[c].tag = "Ok"
             /\ lPc'[c] = "idle"
             /\ storage_calls' = storage_calls
             /\ loaded_models' = loaded_models
     ]_vars
  /\ [][\A c \in LoaderCallers :
          (lActor' = c /\ lPc[c] # "idle" /\ lRet'[c].tag \in LoadErrors) =>
             loaded_models' = loaded_models
     ]_vars
  /\ [][\A c \in LoaderCallers :
          (lActor' = c /\ (calls' # calls \/ lPc'[c] # lPc[c])) =>
             \A m \in ModelIds \ {lId'[c]} :
               loaded_models'[m] = loaded_models[m]
     ]_vars

\* one caller loaded a model from storage, the other one's load_model of
\* the same id was served from the cache, and get_model_metadata returned Ok
C31_Witness ==
  \E c \in LoaderCallers : \E d \in LoaderCallers \ {c} :
    /\ calls = 3
    /\ storage_calls = 1
    /\ lOp[c] = "get" /\ lRet[c].tag = "Ok" /\ lRet[c].metadata = 2
    /\ lOp[d] = "load" /\ lRet[d].tag = "Ok" /\ lId[d] = lId[c]
    /\ loadedSince[lId[c]]

\* after an unload_model the id is not loaded, while another id still is
C31_WitnessUnloaded ==
  \E c \in LoaderCallers : \E d \in LoaderCallers \ {c} :
    /\ lOp[c] = "unload"
    /\ lOp[d] = "get" /\ lRet[d].tag = "NotLoaded" /\ lId[d] = lId[c]
    /\ \E m \in ModelIds \ {lId[c]} : loaded_models[m].present

\* a load_model failed while the other id's entry stayed in the cache
C31_WitnessFailedLoad ==
  \E c \in LoaderCallers :
    /\ lOp[c] = "load"
    /\ lRet[c].tag = "LoadError"
    /\ ~loaded_models[lId[c]].present
    /\ \E m \in ModelIds \ {lId[c]} : loaded_models[m].present

====
